---- MODULE Spec2Model ----
(***************************************************************************)
(* Job orchestration core of the book-reels backend: the gen_jobs table    *)
(* (supabase_client.py), startup recovery (main.py lifespan,               *)
(* mark_stale_jobs_failed, film_resume.py), the submit path (jobs.py),     *)
(* the image rate limiter and the retry loops (imagen.py, gemini.py).      *)
(***************************************************************************)
EXTENDS Integers, Sequences, FiniteSets, TLC

(***************************************************************************)
(* Bounds of the model.                                                    *)
(***************************************************************************)
\* rows of free shape left in gen_jobs by the previous process instance
MaxJobs == 1
\* wall clock (minutes) at which this process instance starts
StartupTime == 7
\* concurrent submit_job requests
MaxCallers == 2
\* store calls that may raise in one run
MaxStoreFaults == 1
\* concurrent callers of the image functions
MaxImageCallers == 3
\* seconds of event-loop time that pass in one run of the rate limiter
MaxTicks == 4
\* beats of a story
MaxBeats == 2
\* regenerate requests made for a film
MaxRegens == 1
\* polls of a veo operation that are followed
MaxVeoPolls == 61

(***************************************************************************)
(* Program constants.                                                      *)
(***************************************************************************)
\* mark_stale_jobs_failed(cutoff_minutes: int = 5)
cutoff_minutes == 5
\* clip_jobs_with_predictions[:10]
STALE_CHECK_LIMIT == 10
\* seedance.POLL_TIMEOUT_SECONDS, the sleep of one poll iteration and the
\* heartbeat period of resume_clip_polling
POLL_TIMEOUT_SECONDS == 600
RESUME_POLL_SLEEP == 3
RESUME_HEARTBEAT_EVERY == 30

\* a dict key that is not there / a value that is there and falsy (None, "", 0)
NoKey == -1
Falsy == 0

(***************************************************************************)
(* Python values.                                                          *)
(***************************************************************************)
\* dict.get(k) is truthy: the key is there and its value is not None/""/0
Truthy(v) == v > Falsy
\* k in dict
HasKey(v) == v # NoKey

\* the result column: SQL NULL, or a JSON object with the keys the recovery
\* code reads ("other" stands for every other key: polling, cost, progress)
NullResult ==
    [null |-> TRUE, prediction_id |-> NoKey, generation_id |-> NoKey,
     scene_number |-> NoKey, video_url |-> NoKey, other |-> FALSE]

\* seedance.generate_video's persisted prediction reference
PredictionRef(p, g, s) ==
    [null |-> FALSE, prediction_id |-> p, generation_id |-> g,
     scene_number |-> s, video_url |-> NoKey, other |-> TRUE]

\* a result object without a prediction reference (film progress, ...)
OtherResult ==
    [null |-> FALSE, prediction_id |-> NoKey, generation_id |-> NoKey,
     scene_number |-> NoKey, video_url |-> NoKey, other |-> TRUE]

\* resume_clip_polling's completed result {"video_url": ..., "cost": ...}
VideoResult(url) ==
    [null |-> FALSE, prediction_id |-> NoKey, generation_id |-> NoKey,
     scene_number |-> NoKey, video_url |-> url, other |-> TRUE]

\* bool(job.get("result")): not None and not an empty dict
ResultTruthy(r) ==
    /\ ~r.null
    /\ \/ HasKey(r.prediction_id) \/ HasKey(r.generation_id)
       \/ HasKey(r.scene_number) \/ HasKey(r.video_url) \/ r.other

\* error_message: NULL is the empty sequence, a string is the sequence of
\* its parts (a fixed prefix, then the text it was formatted from)
NoError == << >>
ErrorContains(msg, part) == \E i \in 1..Len(msg) : msg[i] = part

VARIABLES
    gen_jobs,        \* the gen_jobs table: a sequence of rows, id = position
    atlas,           \* Atlas Cloud: state of the prediction of each id
    pc,              \* lifespan: "boot", "mark", "spawn", "serving" ("task": not run)
    jobs_to_fail,    \* mark_stale_jobs_failed: ids still to mark failed
    clip_queue,      \* _check_and_resume_or_fail_clips: rows still to check
    resume_pc,       \* resume_interrupted_videos task: "none", "scheduled", "done"
    poll,            \* resume_clip_polling task of each job id
    stale0,          \* ids mark_stale_jobs_failed's query returned
    reported,        \* what the provider answered to the startup check of each id
    requests,        \* requests sent to the provider for the prediction of each id
    status_checks,   \* status (GET) requests sent by _check_and_resume_or_fail_clips
    fetches,         \* download_video invocations that ran, per job id
    callers,         \* submit_job requests: where each one is in create_gen_job
    tasks,           \* run_job background tasks, in the order they were added
    store_faults,    \* store calls that raised so far
    image_cfg,       \* imagen.IMAGE_GEN_MAX_CONCURRENT, IMAGE_GEN_IPM (from the environment)
    rate_limiter,    \* imagen._rate_limiter: the _ImageRateLimiter instance
    image_callers,   \* callers of generate_image / ..._with_references / edit_image
    loop_time,       \* asyncio.get_event_loop().time(), in milliseconds
    last_grant,      \* loop time of the latest return of __aenter__
    retry,           \* one invocation of a function with a retry loop
    beats,           \* story.beats of the film request: the beats' numbers
    film,            \* the FilmJob in film_jobs
    film_pc,         \* run_film_generation: "start", "gather", "assemble", "returned"
    shots,           \* the process_single_shot tasks handed to asyncio.gather
    regens,          \* the run_shot_regeneration background tasks
    disk,            \* the files in TEMP_DIR
    assemblies,      \* the calls of assemble_videos, in order
    video_loop       \* one invocation of seedance.generate_video or veo.generate_video

recoveryVars == <<atlas, pc, jobs_to_fail, clip_queue, resume_pc, poll,
                  stale0, reported, requests, status_checks, fetches>>
submitVars == <<callers, tasks, store_faults>>
imageVars == <<image_cfg, rate_limiter, image_callers, loop_time, last_grant, retry>>
pipelineVars == <<beats, film, film_pc, shots, regens, disk, assemblies>>
vars == <<gen_jobs, recoveryVars, submitVars, imageVars, pipelineVars, video_loop>>

\* what the recovery actions (next to store_faults), and the submit-path
\* actions, leave alone
notRecovery == <<callers, tasks, imageVars, pipelineVars, video_loop>>
notSubmit == <<recoveryVars, imageVars, pipelineVars, video_loop>>
notImage == <<gen_jobs, recoveryVars, submitVars, pipelineVars, video_loop>>
\* what the film pipeline, and a generate_video invocation (next to gen_jobs
\* and store_faults), leave alone
notFilm == <<gen_jobs, recoveryVars, submitVars, imageVars, video_loop>>
notLoop == <<recoveryVars, callers, tasks, imageVars, pipelineVars>>

JobIds == 1..Len(gen_jobs)

\* _now_iso() of this process instance
Now == StartupTime

(***************************************************************************)
(* Atlas Cloud, as the poll endpoint answers for one prediction: the GET   *)
(* raises (up = FALSE: network error, timeout, bad status, malformed       *)
(* body) or returns data.status and, when has_error, data.error.           *)
(***************************************************************************)
ProviderError == "safety filter"

AtlasProcessing == [up |-> TRUE, status |-> "processing", has_error |-> FALSE]

AtlasSamples ==
    { AtlasProcessing,
      [up |-> TRUE, status |-> "completed", has_error |-> FALSE],
      [up |-> TRUE, status |-> "succeeded", has_error |-> FALSE],
      [up |-> TRUE, status |-> "failed", has_error |-> TRUE],
      [up |-> TRUE, status |-> "failed", has_error |-> FALSE],
      [up |-> FALSE, status |-> "processing", has_error |-> FALSE] }

(***************************************************************************)
(* The rows a previous process instance can have left behind.              *)
(***************************************************************************)
\* a gen_jobs row; its id is its position in the table
Row(gid, jt, tid, st, res, err, upd) ==
    [generation_id |-> gid, job_type |-> jt, target_id |-> tid, status |-> st,
     result |-> res, error_message |-> err, updated_at |-> upd]

\* updated_at: older than the cutoff, exactly at the cutoff, just written
TimeSamples == {Now - cutoff_minutes - 1, Now - cutoff_minutes, Now}

GeneratingResults(id) ==
    { NullResult, OtherResult,
      PredictionRef(id, 1, 1),          \* as seedance.generate_video persists it
      PredictionRef(id, 1, Falsy),      \* scene_number 0
      PredictionRef(Falsy, 1, 1) }      \* the key is there, the id is empty

FreeRows(id) ==
    { Row(1, jt, id, "generating", res, NoError, upd) :
        jt \in {"clip", "image"}, res \in GeneratingResults(id), upd \in TimeSamples }
    \cup { Row(1, "clip", id, "completed", VideoResult(id), NoError, Now - 1),
           Row(1, "image", id, "failed", NullResult,
               <<"Interrupted by server restart">>, Now - 1) }

\* a stale clip job with a prediction reference
BacklogRow(id) ==
    Row(1, "clip", id, "generating", PredictionRef(id, 1, 1), NoError,
        Now - cutoff_minutes - 1)

\* a row of free shape with the provider's state of its prediction
FreeCells(id) ==
    { [row |-> r, atlas |-> a] : r \in FreeRows(id), a \in AtlasSamples }

\* the provider's state is read only for a clip job with a prediction id
CellOk(c) ==
    ~(c.row.job_type = "clip" /\ Truthy(c.row.result.prediction_id))
    => c.atlas = AtlasProcessing

\* the tables of n rows of free shape placed after b backlog rows
RECURSIVE FreeTables(_, _)
FreeTables(b, n) ==
    IF n = 0 THEN { << >> }
    ELSE { Append(t, c) : t \in FreeTables(b, n - 1),
                          c \in { x \in FreeCells(b + n) : CellOk(x) } }

\* the table: `b` stale clip jobs (one provider state for all of them), then
\* up to MaxJobs rows of free shape
InitStore(backlogs) ==
    \E b \in backlogs, n \in 0..MaxJobs :
      \E s \in (IF b = 0 THEN {AtlasProcessing} ELSE AtlasSamples),
         free \in FreeTables(b, n) :
        /\ gen_jobs = [i \in 1..(b + n) |->
                         IF i <= b THEN BacklogRow(i) ELSE free[i - b].row]
        /\ atlas = [i \in 1..(b + n) |-> IF i <= b THEN s ELSE free[i - b].atlas]

\* no answer of the provider has been read
NoAnswer == [up |-> TRUE, status |-> "", has_error |-> FALSE]

\* no store call is awaited
NoWrite == [call |-> "none", status |-> "", has_result |-> FALSE, result |-> NullResult,
            has_error |-> FALSE, error |-> NoError, handler |-> FALSE]

NoPoll == [state |-> "none", prediction_id |-> NoKey, elapsed |-> 0, last_heartbeat |-> 0,
           write |-> NoWrite, seen |-> NoAnswer]

InitRest ==
    /\ jobs_to_fail = << >>
    /\ clip_queue = << >>
    /\ poll = [i \in JobIds |-> NoPoll]
    /\ stale0 = {}
    /\ reported = [i \in JobIds |-> "none"]
    /\ requests = [i \in JobIds |->
                     [POST |-> IF Truthy(gen_jobs[i].result.prediction_id) THEN 1 ELSE 0,
                      GET |-> 0]]
    /\ status_checks = 0
    /\ fetches = [i \in JobIds |-> 0]

IdleCaller == [pc |-> "idle", generation_id |-> 0, job_type |-> "", target_id |-> 0,
               attempt |-> 0, job_id |-> 0]

\* imagen.py's defaults: os.getenv("IMAGE_GEN_MAX_CONCURRENT", "4"),
\* os.getenv("IMAGE_GEN_IPM", "10")
IMAGE_GEN_MAX_CONCURRENT == 4
IMAGE_GEN_IPM == 10

\* _rate_limiter: Optional[_ImageRateLimiter] = None
NoLimiter == [created |-> FALSE, sem |-> 0, interval |-> 0, last_call |-> 0, lock |-> 0]

IdleImageCaller == [pc |-> "idle", fn |-> "", wake |-> 0]

\* __aenter__ has not returned to anyone yet
NoGrant == -1

\* no invocation of a retrying function is under way
NoRetry ==
    [fn |-> "", pc |-> "idle", fallback_prompt |-> FALSE, openai |-> FALSE,
     attempt |-> 0, calls |-> 0, failure |-> "none", last_error |-> << >>,
     retries |-> << >>, fallbacks |-> 0, starts |-> << >>]

\* no image function has been called yet
InitImage ==
    /\ image_cfg = [max_concurrent |-> IMAGE_GEN_MAX_CONCURRENT, ipm |-> IMAGE_GEN_IPM]
    /\ rate_limiter = NoLimiter
    /\ image_callers = [c \in 1..MaxImageCallers |-> IdleImageCaller]
    /\ loop_time = 0
    /\ last_grant = NoGrant
    /\ retry = NoRetry

\* Optional[str] = None of a path
NoPath == <<"none", 0>>

\* error_message: Optional[str] = None
NoFilmError == [kind |-> "none", shots |-> << >>]

\* FilmJob(film_id, status="generating", ..., total_shots=len(story.beats)) with
\* the dataclass defaults; the costs count COST_IMAGE_GENERATION *
\* SCENE_REFS_PER_SHOT and COST_PER_VIDEO
NewFilmJob(n) ==
    [status |-> "generating", total_shots |-> n, current_shot |-> 0,
     phase |-> "keyframe", completed_shots |-> << >>, final_video_path |-> NoPath,
     error_message |-> NoFilmError, cost_scene_refs |-> 0, cost_videos |-> 0]

\* film_jobs.get(film_id) finds nothing
NoFilmJob == [NewFilmJob(0) EXCEPT !.status = "none"]

\* no regenerate request has been made in this slot
IdleRegen == [pc |-> "idle", number |-> 0, video_path |-> NoPath, assembly |-> 0]

\* generate_video is not running
NoLoop ==
    [provider |-> "", pc |-> "idle", job_id |-> 0, recovery_ids |-> FALSE,
     heartbeat_callback |-> FALSE, elapsed |-> 0, last_heartbeat |-> 0,
     polls |-> 0, persisted |-> 0, raised |-> "none"]

\* no film has been requested and no video is being generated
InitIdleFilm ==
    /\ beats = << >>
    /\ film = NoFilmJob
    /\ film_pc = "idle"
    /\ shots = << >>
    /\ regens = [r \in 1..MaxRegens |-> IdleRegen]
    /\ disk = {}
    /\ assemblies = << >>
    /\ video_loop = NoLoop

\* no request has come in yet
InitSubmit ==
    /\ callers = [c \in 1..MaxCallers |-> IdleCaller]
    /\ tasks = << >>
    /\ store_faults = 0

\* the process starts (lifespan), or resume_interrupted_videos() runs as the
\* task that lifespan means to create
Init ==
    /\ \/ pc = "boot" /\ resume_pc = "none" /\ InitStore({0, STALE_CHECK_LIMIT})
       \/ pc = "task" /\ resume_pc = "scheduled" /\ InitStore({0})
    /\ InitRest
    /\ InitSubmit
    /\ InitImage
    /\ InitIdleFilm

(***************************************************************************)
(* Requests to Atlas Cloud.                                                *)
(***************************************************************************)
\* faulty variant: recovery submits the generation again instead of reading its status
StatusRequest_resubmits == [method |-> "POST", endpoint |-> "generateVideo"]

\* client.get(POLL_URL_TEMPLATE.format(prediction_id=...)): reads the status
\* of a prediction that exists
StatusRequest == [method |-> "GET", endpoint |-> "prediction"]

\* the request counted against the prediction it is about
Send(sent, prediction_id, request) ==
    [sent EXCEPT ![prediction_id][request.method] = @ + 1]

(***************************************************************************)
(* gen_jobs writes.                                                        *)
(***************************************************************************)
\* the outcomes of a store call: it answers; it raises before it is applied;
\* it is applied and the answer is lost (connection reset, timeout)
StoreOutcomes == IF store_faults < MaxStoreFaults THEN {"ok", "raise", "lost"} ELSE {"ok"}

\* the table after a write with that outcome, `written` being the table with
\* the write applied
StoreWrite(outcome, table, written) == IF outcome = "raise" THEN table ELSE written

\* the exceptions a store call with that outcome raises
Raises(outcome) == IF outcome = "ok" THEN 0 ELSE 1

\* sb.table("gen_jobs").update({status, error_message, updated_at}).eq("id", id)
MarkFailed(table, id, msg) ==
    [table EXCEPT ![id].status = "failed", ![id].error_message = msg,
                  ![id].updated_at = Now]

\* update_gen_job(job_id, status, result, error): result and error_message
\* are written only when given (has_result, has_error)
update_gen_job(table, id, st, has_result, res, has_error, err) ==
    [table EXCEPT ![id].status = st,
                  ![id].updated_at = Now,
                  ![id].result = IF has_result THEN res ELSE @,
                  ![id].error_message = IF has_error THEN err ELSE @]

\* faulty variant: the heartbeat writes status and result as well
touch_gen_job_rewrites(table, id) ==
    [table EXCEPT ![id].updated_at = Now, ![id].status = "generating",
                  ![id].result = NullResult]

\* touch_gen_job(job_id): update({"updated_at": _now_iso()}).eq("id", job_id)
touch_gen_job(table, id) == [table EXCEPT ![id].updated_at = Now]


(***************************************************************************)
(* mark_stale_jobs_failed                                                  *)
(***************************************************************************)
Ids(table) == [i \in 1..Len(table) |-> i]

\* .eq("status", "generating").lt("updated_at", cutoff)
IsStale(row) == row.status = "generating" /\ row.updated_at < Now - cutoff_minutes

\* job_type == "clip" and result and "prediction_id" in result
IsClipWithPrediction(row) ==
    /\ row.job_type = "clip"
    /\ ResultTruthy(row.result)
    /\ HasKey(row.result.prediction_id)

StaleJobs(table) == SelectSeq(Ids(table), LAMBDA i : IsStale(table[i]))

ClipJobsWithPredictions(table) ==
    SelectSeq(StaleJobs(table), LAMBDA i : IsClipWithPrediction(table[i]))

JobsToFail(table) ==
    SelectSeq(StaleJobs(table), LAMBDA i : ~IsClipWithPrediction(table[i]))

\* faulty variant: every stale clip job is checked
SafetyLimit_unbounded(q) == q

\* clip_jobs_with_predictions[:10]
SafetyLimit(q) == SubSeq(q, 1, IF Len(q) < STALE_CHECK_LIMIT THEN Len(q) ELSE STALE_CHECK_LIMIT)

\* faulty variant: an exception of mark_stale_jobs_failed leaves lifespan
AfterMarkRaised_propagates == "crashed"

\* lifespan's `except Exception` around mark_stale_jobs_failed(): the warning
\* is printed and lifespan goes on to its second try block
AfterMarkRaised == "spawn"

\* lifespan calls mark_stale_jobs_failed(): the query (which raises out of the
\* function when the store call fails) and the split of its rows
QueryStale(outcome) ==
    /\ pc = "boot"
    /\ outcome \in StoreOutcomes
    /\ store_faults' = store_faults + Raises(outcome)
    /\ IF outcome # "ok"
       THEN /\ pc' = AfterMarkRaised
            /\ UNCHANGED <<stale0, jobs_to_fail, clip_queue>>
       ELSE /\ stale0' = { StaleJobs(gen_jobs)[k] : k \in 1..Len(StaleJobs(gen_jobs)) }
            /\ jobs_to_fail' = JobsToFail(gen_jobs)
            /\ clip_queue' = SafetyLimit(ClipJobsWithPredictions(gen_jobs))
            /\ pc' = IF StaleJobs(gen_jobs) = << >> THEN "spawn" ELSE "mark"
    /\ UNCHANGED notRecovery
    /\ UNCHANGED <<gen_jobs, atlas, resume_pc, poll, reported, requests,
                   status_checks, fetches>>

\* one iteration of `for job_id in jobs_to_fail`: an exception of the update
\* is caught and printed
FailStaleJob(outcome) ==
    /\ pc = "mark"
    /\ jobs_to_fail # << >>
    /\ outcome \in StoreOutcomes
    /\ store_faults' = store_faults + Raises(outcome)
    /\ gen_jobs' = StoreWrite(outcome, gen_jobs,
                      MarkFailed(gen_jobs, Head(jobs_to_fail),
                                 <<"Interrupted by server restart">>))
    /\ jobs_to_fail' = Tail(jobs_to_fail)
    /\ UNCHANGED notRecovery
    /\ UNCHANGED <<atlas, pc, clip_queue, resume_pc, poll, stale0, reported,
                   requests, status_checks, fetches>>

\* faulty variant: a prediction still in progress is left for the resume task
ClipCheckVerdict_leaves_processing(answer) ==
    IF ~answer.up
    THEN <<"Interrupted by server restart (could not check Atlas: ", "transport error">>
    ELSE IF answer.status = "failed"
    THEN <<"Atlas Cloud: ",
           IF answer.has_error THEN ProviderError ELSE "Generation failed on Atlas Cloud">>
    ELSE NoError

\* what the startup check of one clip job does to its row, given the answer
\* of the poll endpoint: the new error_message, or NoError to leave the row
ClipCheckVerdict(answer) ==
    IF ~answer.up
    THEN <<"Interrupted by server restart (could not check Atlas: ", "transport error">>
    ELSE IF answer.status \in {"completed", "succeeded"}
    THEN NoError
    ELSE IF answer.status = "failed"
    THEN <<"Atlas Cloud: ",
           IF answer.has_error THEN ProviderError ELSE "Generation failed on Atlas Cloud">>
    ELSE <<"Interrupted by server restart (still generating on Atlas after >5min)">>

\* the update of the except branch, run when the update of the try block
\* (outcome `first`) raised: a second update (outcome `second`), whose own
\* exception is passed over
AfterCheckWrite(first, second, table, id) ==
    IF first = "ok" THEN table
    ELSE StoreWrite(second, table,
           MarkFailed(table, id,
             <<"Interrupted by server restart (could not check Atlas: ", "store error">>))

\* one iteration of `for job in clip_jobs` in _check_and_resume_or_fail_clips;
\* `first` is the outcome of its update, `second` that of the update of the
\* except branch when the first one raised inside the try block
CheckClip(first, second) ==
    /\ pc = "mark"
    /\ jobs_to_fail = << >>
    /\ clip_queue # << >>
    /\ first \in StoreOutcomes
    /\ second \in (IF store_faults + Raises(first) < MaxStoreFaults
                   THEN {"ok", "raise", "lost"} ELSE {"ok"})
    /\ store_faults' = store_faults + Raises(first) + Raises(second)
    /\ LET id == Head(clip_queue)
           prediction_id == gen_jobs[id].result.prediction_id
       IN IF ~Truthy(prediction_id)
          THEN /\ second = "ok"
               /\ gen_jobs' = StoreWrite(first, gen_jobs,
                                 MarkFailed(gen_jobs, id,
                                            <<"No prediction_id found for resume">>))
               /\ UNCHANGED <<reported, status_checks, requests>>
          ELSE /\ status_checks' = status_checks + 1
               /\ requests' = Send(requests, prediction_id, StatusRequest)
               /\ reported' = [reported EXCEPT ![id] =
                     IF atlas[prediction_id].up THEN atlas[prediction_id].status
                     ELSE "raised"]
               /\ IF ClipCheckVerdict(atlas[prediction_id]) = NoError
                  THEN \* completed: no update
                       /\ first = "ok" /\ second = "ok"
                       /\ UNCHANGED gen_jobs
                  ELSE IF ~atlas[prediction_id].up
                  THEN \* the GET raised: the one update is that of the except branch
                       /\ second = "ok"
                       /\ gen_jobs' = StoreWrite(first, gen_jobs,
                             MarkFailed(gen_jobs, id, ClipCheckVerdict(atlas[prediction_id])))
                  ELSE /\ first = "ok" => second = "ok"
                       /\ gen_jobs' = AfterCheckWrite(first, second,
                             StoreWrite(first, gen_jobs,
                               MarkFailed(gen_jobs, id, ClipCheckVerdict(atlas[prediction_id]))),
                             id)
    /\ clip_queue' = Tail(clip_queue)
    /\ UNCHANGED notRecovery
    /\ UNCHANGED <<atlas, pc, jobs_to_fail, resume_pc, poll, stale0, fetches>>

\* mark_stale_jobs_failed returns
MarkReturn ==
    /\ pc = "mark"
    /\ jobs_to_fail = << >>
    /\ clip_queue = << >>
    /\ pc' = "spawn"
    /\ UNCHANGED store_faults
    /\ UNCHANGED notRecovery
    /\ UNCHANGED <<gen_jobs, atlas, jobs_to_fail, clip_queue, resume_pc, poll,
                   stale0, reported, requests, status_checks, fetches>>

(***************************************************************************)
(* lifespan, second step: asyncio.create_task(resume_interrupted_videos()) *)
(***************************************************************************)
\* the names bound in main.py's module namespace when lifespan runs
MainModuleNames ==
    {"asynccontextmanager", "FastAPI", "CORSMiddleware", "HOST", "PORT",
     "CORS_ORIGINS", "test", "story", "moodboard", "film", "asset_gen", "jobs",
     "mark_stale_jobs_failed", "lifespan", "app", "root", "health"}

\* the names the create_task line looks up in the module namespace
CreateTaskNames == {"asyncio"}

\* the line raises NameError (an Exception, caught and printed) unless every
\* name is bound; no task is created then
LifespanSpawn ==
    /\ pc = "spawn"
    /\ resume_pc' = IF CreateTaskNames \subseteq MainModuleNames
                    THEN "scheduled" ELSE resume_pc
    /\ pc' = "serving"
    /\ UNCHANGED store_faults
    /\ UNCHANGED notRecovery
    /\ UNCHANGED <<gen_jobs, atlas, jobs_to_fail, clip_queue, poll, stale0,
                   reported, requests, status_checks, fetches>>

(***************************************************************************)
(* film_resume.resume_interrupted_videos                                   *)
(***************************************************************************)
\* the rows the loop creates a resume_clip_polling task for
Resumable(row) ==
    /\ row.status = "generating"
    /\ row.job_type = "clip"
    /\ ResultTruthy(row.result)
    /\ HasKey(row.result.prediction_id)
    /\ Truthy(row.result.prediction_id)
    /\ Truthy(row.result.generation_id)
    /\ Truthy(row.result.scene_number)

\* the whole coroutine: it never awaits, so it runs in one step of the loop.
\* When the select of the generating clip jobs raises, the exception leaves
\* the coroutine before its loop and no task is created
ResumeInterrupted(outcome) ==
    /\ resume_pc = "scheduled"
    /\ outcome \in StoreOutcomes
    /\ store_faults' = store_faults + Raises(outcome)
    /\ resume_pc' = "done"
    /\ poll' = IF outcome # "ok" THEN poll
               ELSE [i \in JobIds |->
                       IF Resumable(gen_jobs[i])
                       THEN [state |-> "polling",
                             prediction_id |-> gen_jobs[i].result.prediction_id,
                             elapsed |-> 0, last_heartbeat |-> 0, write |-> NoWrite,
                             seen |-> NoAnswer]
                       ELSE poll[i]]
    /\ UNCHANGED notRecovery
    /\ UNCHANGED <<gen_jobs, atlas, pc, jobs_to_fail, clip_queue, stale0,
                   reported, requests, status_checks, fetches>>

(***************************************************************************)
(* film_resume.resume_clip_polling                                         *)
(***************************************************************************)
\* film.download_video's parameters, and the keyword arguments of the call
\* download_video(atlas_url, clip_id, scene_number, generation_id=...)
DownloadVideoParams == {"video_url", "film_id", "shot_number"}
ResumeDownloadKeywords == {"generation_id"}

\* the call binds its arguments (else TypeError before the body runs)
DownloadCallBinds == ResumeDownloadKeywords \subseteq DownloadVideoParams

\* download_video returns a (video_path, storage_url) pair, as the caller
\* unpacks; film.download_video returns the file path alone
DownloadReturnsPair == FALSE

\* the store call the except branch awaits (handler: outside the try):
\* async_update_gen_job(job_id, "failed", error=f"Resume polling failed: {e}")
PollingFailed(e) ==
    [call |-> "update", status |-> "failed", has_result |-> FALSE,
     result |-> NullResult, has_error |-> TRUE,
     error |-> <<"Resume polling failed: ", e>>, handler |-> TRUE]

\* await asyncio.sleep(3) is over: elapsed += 3, and client.get is awaited
PollSend(j) ==
    /\ poll[j].state = "polling"
    /\ requests' = Send(requests, poll[j].prediction_id, StatusRequest)
    /\ poll' = [poll EXCEPT ![j].state = "awaiting",
                            ![j].elapsed = @ + RESUME_POLL_SLEEP]
    /\ UNCHANGED store_faults
    /\ UNCHANGED notRecovery
    /\ UNCHANGED <<gen_jobs, atlas, pc, jobs_to_fail, clip_queue, resume_pc,
                   stale0, reported, status_checks, fetches>>

\* the GET has answered (or raised): the loop body up to its next await,
\* which is a store call, or the sleep of the next iteration
PollAnswer(j) ==
    /\ poll[j].state = "awaiting"
    /\ LET answer == atlas[poll[j].prediction_id]
           elapsed == poll[j].elapsed
           awaits(w) == [poll EXCEPT ![j].state = "writing", ![j].write = w,
                                     ![j].seen = answer]
       IN IF ~answer.up
          THEN \* the GET raises: except branch
               /\ poll' = awaits(PollingFailed("transport error"))
               /\ UNCHANGED fetches
          ELSE IF answer.status \in {"completed", "succeeded"}
          THEN IF ~DownloadCallBinds
               THEN /\ poll' = awaits(PollingFailed("TypeError"))
                    /\ UNCHANGED fetches
               ELSE /\ fetches' = [fetches EXCEPT ![j] = @ + 1]
                    /\ poll' = awaits(
                         IF DownloadReturnsPair
                         THEN [call |-> "update", status |-> "completed",
                               has_result |-> TRUE,
                               result |-> VideoResult(poll[j].prediction_id),
                               has_error |-> FALSE, error |-> NoError,
                               handler |-> FALSE]
                         ELSE PollingFailed("ValueError"))
          ELSE IF answer.status = "failed"
          THEN /\ poll' = awaits(
                    [call |-> "update", status |-> "failed", has_result |-> FALSE,
                     result |-> NullResult, has_error |-> TRUE,
                     error |-> <<IF answer.has_error THEN ProviderError
                                 ELSE "Generation failed">>,
                     handler |-> FALSE])
               /\ UNCHANGED fetches
          ELSE \* still processing: heartbeat every 30 s, else the loop test
               /\ poll' =
                    IF elapsed - poll[j].last_heartbeat >= RESUME_HEARTBEAT_EVERY
                    THEN awaits([NoWrite EXCEPT !.call = "touch"])
                    ELSE [poll EXCEPT ![j].seen = answer, ![j].state =
                            IF elapsed < POLL_TIMEOUT_SECONDS THEN "polling" ELSE "done"]
               /\ UNCHANGED fetches
    /\ UNCHANGED store_faults
    /\ UNCHANGED notRecovery
    /\ UNCHANGED <<gen_jobs, atlas, pc, jobs_to_fail, clip_queue, resume_pc,
                   stale0, reported, requests, status_checks>>

\* the awaited store call runs in its worker thread: after the heartbeat's
\* touch the task is still suspended; an update is followed by return (or
\* ends the except branch). A call that raises inside the try sends the
\* task to its except branch, which awaits the "Resume polling failed"
\* update; when that update raises, the exception leaves the task
PollWrite(j, outcome) ==
    /\ poll[j].state = "writing"
    /\ outcome \in StoreOutcomes
    /\ store_faults' = store_faults + Raises(outcome)
    /\ LET w == poll[j].write
       IN /\ gen_jobs' = StoreWrite(outcome, gen_jobs,
                            IF w.call = "touch"
                            THEN touch_gen_job(gen_jobs, j)
                            ELSE update_gen_job(gen_jobs, j, w.status, w.has_result,
                                                w.result, w.has_error, w.error))
          /\ poll' =
               IF outcome # "ok" /\ ~w.handler
               THEN [poll EXCEPT ![j].write = PollingFailed("store error")]
               ELSE [poll EXCEPT ![j].write = NoWrite,
                                 ![j].state = IF outcome = "ok" /\ w.call = "touch"
                                              THEN "touched" ELSE "done"]
    /\ UNCHANGED notRecovery
    /\ UNCHANGED <<atlas, pc, jobs_to_fail, clip_queue, resume_pc, stale0,
                   reported, requests, status_checks, fetches>>

\* the task resumes after heartbeat(): last_heartbeat = elapsed, then the
\* loop test
PollResume(j) ==
    /\ poll[j].state = "touched"
    /\ poll' = [poll EXCEPT
         ![j].last_heartbeat = poll[j].elapsed,
         ![j].state = IF poll[j].elapsed < POLL_TIMEOUT_SECONDS
                      THEN "polling" ELSE "done"]
    /\ UNCHANGED <<gen_jobs, store_faults>>
    /\ UNCHANGED notRecovery
    /\ UNCHANGED <<atlas, pc, jobs_to_fail, clip_queue, resume_pc, stale0,
                   reported, requests, status_checks, fetches>>

\* the provider finishes (or loses) a prediction that is being polled
AtlasProgress(p) ==
    /\ poll[p].state \in {"polling", "awaiting", "writing", "touched"}
    /\ atlas[poll[p].prediction_id] = AtlasProcessing
    /\ \E a \in AtlasSamples \ {AtlasProcessing} :
         atlas' = [atlas EXCEPT ![poll[p].prediction_id] = a]
    /\ UNCHANGED store_faults
    /\ UNCHANGED notRecovery
    /\ UNCHANGED <<gen_jobs, pc, jobs_to_fail, clip_queue, resume_pc, poll,
                   stale0, reported, requests, status_checks, fetches>>

(***************************************************************************)
(* The submit path: jobs.submit_job, supabase_client.create_gen_job and    *)
(* jobs.run_job, in a serving process.                                     *)
(***************************************************************************)
\* the (generation_id, job_type, target_id) triples requests are made for
TripleSamples ==
    { [generation_id |-> 1, job_type |-> "image", target_id |-> t] : t \in 1..2 }

SameTriple(row, t) ==
    /\ row.generation_id = t.generation_id
    /\ row.job_type = t.job_type
    /\ row.target_id = t.target_id

\* select * ... .eq(generation_id).eq(job_type).eq(target_id).eq("status", "generating")
SelectGenerating(table, t) ==
    { i \in 1..Len(table) : SameTriple(table[i], t) /\ table[i].status = "generating" }

\* existing.data[0]
FirstOf(ids) == CHOOSE i \in ids : \A k \in ids : i <= k

\* the rows the upsert conflicts with: on_conflict="generation_id,job_type,target_id"
ConflictRows(table, t) == { i \in 1..Len(table) : SameTriple(table[i], t) }

\* faulty variant: a plain insert, no on_conflict
Upsert_inserts(table, t) ==
    Append(table, Row(t.generation_id, t.job_type, t.target_id,
                      "generating", NullResult, NoError, Now))

\* upsert({..., status: generating, result: None, error_message: None,
\* updated_at}, on_conflict=triple): the conflicting row is updated in place
\* and keeps its id; without a conflict a row is inserted
Upsert(table, t) ==
    IF ConflictRows(table, t) # {}
    THEN [table EXCEPT ![FirstOf(ConflictRows(table, t))] =
            [@ EXCEPT !.status = "generating", !.result = NullResult,
                      !.error_message = NoError, !.updated_at = Now]]
    ELSE Append(table, Row(t.generation_id, t.job_type, t.target_id,
                           "generating", NullResult, NoError, Now))

\* row.data[0]["id"] of the upsert
UpsertedId(table, t) ==
    IF ConflictRows(table, t) # {} THEN FirstOf(ConflictRows(table, t))
    ELSE Len(table) + 1

\* create_gen_job's except branch: `for attempt in range(4)`, then raise last_err
AfterStoreError(c) ==
    IF callers[c].attempt < 3
    THEN [callers EXCEPT ![c].attempt = @ + 1, ![c].pc = "select"]
    ELSE [callers EXCEPT ![c].pc = "http500"]

\* POST /jobs/submit arrives; create_gen_job starts in a worker thread
SubmitJob(c, t) ==
    /\ pc = "serving"
    /\ callers[c].pc = "idle"
    /\ callers' = [callers EXCEPT ![c] =
          [pc |-> "select", generation_id |-> t.generation_id,
           job_type |-> t.job_type, target_id |-> t.target_id,
           attempt |-> 0, job_id |-> 0]]
    /\ UNCHANGED <<gen_jobs, tasks, store_faults>>
    /\ UNCHANGED notSubmit

\* create_gen_job: the query for an already-running job; submit_job returns
\* the existing id, without a task, when there is one
CreateSelect(c, outcome) ==
    /\ callers[c].pc = "select"
    /\ outcome \in StoreOutcomes
    /\ LET existing == SelectGenerating(gen_jobs, callers[c])
       IN IF outcome # "ok"
          THEN /\ callers' = AfterStoreError(c)
               /\ store_faults' = store_faults + 1
          ELSE /\ callers' =
                    IF existing # {}
                    THEN [callers EXCEPT ![c].pc = "returned",
                                         ![c].job_id = FirstOf(existing)]
                    ELSE [callers EXCEPT ![c].pc = "upsert"]
               /\ UNCHANGED store_faults
    /\ UNCHANGED <<gen_jobs, tasks>>
    /\ UNCHANGED notSubmit

\* create_gen_job: the upsert, in the worker thread of asyncio.to_thread;
\* submit_job is still awaiting async_create_gen_job
CreateUpsert(c, outcome) ==
    /\ callers[c].pc = "upsert"
    /\ outcome \in StoreOutcomes
    /\ gen_jobs' = IF outcome = "raise" THEN gen_jobs ELSE Upsert(gen_jobs, callers[c])
    /\ IF outcome # "ok"
       THEN /\ callers' = AfterStoreError(c)
            /\ store_faults' = store_faults + 1
       ELSE /\ callers' = [callers EXCEPT ![c].pc = "add_task",
                              ![c].job_id = UpsertedId(gen_jobs, callers[c])]
            /\ UNCHANGED store_faults
    /\ UNCHANGED tasks
    /\ UNCHANGED notSubmit

\* submit_job resumes with the upserted row (no _already_generating):
\* background_tasks.add_task(run_job, job_id, request), and it returns the id
AddTask(c) ==
    /\ callers[c].pc = "add_task"
    /\ tasks' = Append(tasks, [job_id |-> callers[c].job_id,
                               st |-> "scheduled", writes |-> << >>])
    /\ callers' = [callers EXCEPT ![c].pc = "returned"]
    /\ UNCHANGED <<gen_jobs, store_faults>>
    /\ UNCHANGED notSubmit

\* run_job: the handler and the upload of its images return or raise
RunJobHandler(k, ok) ==
    /\ tasks[k].st = "scheduled"
    /\ tasks' = [tasks EXCEPT ![k].st = IF ok THEN "completing" ELSE "failing"]
    /\ UNCHANGED <<gen_jobs, callers, store_faults>>
    /\ UNCHANGED notSubmit

\* str(e) of what run_job's except branch caught: the handler's (or the
\* upload's) exception, or that of the "completed" update
RunJobError(task) ==
    IF task.st = "failing" THEN <<"handler error">> ELSE <<"store error">>

\* run_job: async_update_gen_job(job_id, "completed", result=...) at the end
\* of the try block (an exception of it is caught by the except branch, like
\* the handler's), or async_update_gen_job(job_id, "failed", error=...) in
\* the except branch (an exception of it leaves run_job). `writes` records
\* the terminal updates of this task that the store applied.
RunJobWrite(k, outcome) ==
    /\ tasks[k].st \in {"completing", "failing", "failing_store"}
    /\ outcome \in StoreOutcomes
    /\ store_faults' = store_faults + Raises(outcome)
    /\ gen_jobs' = StoreWrite(outcome, gen_jobs,
         IF tasks[k].st = "completing"
         THEN update_gen_job(gen_jobs, tasks[k].job_id, "completed",
                             TRUE, OtherResult, FALSE, NoError)
         ELSE update_gen_job(gen_jobs, tasks[k].job_id, "failed",
                             FALSE, NullResult, TRUE, RunJobError(tasks[k])))
    /\ tasks' = [tasks EXCEPT
         ![k].st = IF tasks[k].st = "completing" /\ outcome # "ok"
                   THEN "failing_store" ELSE "done",
         ![k].writes = IF outcome = "raise" THEN @
                       ELSE Append(@, IF tasks[k].st = "completing"
                                      THEN "completed" ELSE "failed")]
    /\ UNCHANGED callers
    /\ UNCHANGED notSubmit

\* a serving process: for each triple no row yet, or the row of a job that is
\* running (with its task), completed or failed
RECURSIVE ServingTables(_)
ServingTables(n) ==
    IF n = 0 THEN { << >> }
    ELSE LET t == [generation_id |-> 1, job_type |-> "image", target_id |-> n]
         IN ServingTables(n - 1) \cup
            { Append(tb, Row(t.generation_id, t.job_type, t.target_id, st,
                             IF st = "completed" THEN OtherResult ELSE NullResult,
                             IF st = "failed" THEN <<"handler error">> ELSE NoError,
                             Now)) :
                tb \in ServingTables(n - 1),
                st \in {"generating", "completed", "failed"} }

InitJobs ==
    /\ gen_jobs \in ServingTables(2)
    /\ pc = "serving"
    /\ resume_pc = "none"
    /\ atlas = [i \in JobIds |-> AtlasProcessing]
    /\ InitRest
    /\ callers = [c \in 1..MaxCallers |-> IdleCaller]
    /\ tasks = [k \in 1..Len(SelectSeq(Ids(gen_jobs),
                              LAMBDA i : gen_jobs[i].status = "generating")) |->
                  [job_id |-> SelectSeq(Ids(gen_jobs),
                                 LAMBDA i : gen_jobs[i].status = "generating")[k],
                   st |-> "scheduled", writes |-> << >>]]
    /\ store_faults = 0
    /\ InitImage
    /\ InitIdleFilm

NextJobs ==
    \/ \E c \in 1..MaxCallers, t \in TripleSamples : SubmitJob(c, t)
    \/ \E c \in 1..MaxCallers, o \in {"ok", "raise", "lost"} : CreateSelect(c, o)
    \/ \E c \in 1..MaxCallers, o \in {"ok", "raise", "lost"} : CreateUpsert(c, o)
    \/ \E c \in 1..MaxCallers : AddTask(c)
    \/ \E k \in 1..Len(tasks), ok \in BOOLEAN : RunJobHandler(k, ok)
    \/ \E k \in 1..Len(tasks) : RunJobWrite(k, "ok")

\* the submit path with a store that may fail in create_gen_job
SpecJobs == InitJobs /\ [][NextJobs]_vars

\* the submit path with a store that may fail in run_job's updates
NextRunJob ==
    \/ \E c \in 1..MaxCallers, t \in TripleSamples : SubmitJob(c, t)
    \/ \E c \in 1..MaxCallers : CreateSelect(c, "ok")
    \/ \E c \in 1..MaxCallers : CreateUpsert(c, "ok")
    \/ \E c \in 1..MaxCallers : AddTask(c)
    \/ \E k \in 1..Len(tasks), ok \in BOOLEAN : RunJobHandler(k, ok)
    \/ \E k \in 1..Len(tasks), o \in {"ok", "raise", "lost"} : RunJobWrite(k, o)

SpecRunJob == InitJobs /\ [][NextRunJob]_vars

(***************************************************************************)
(* imagen._ImageRateLimiter and the three functions that enter it.         *)
(***************************************************************************)
\* values of the two environment variables
ConcurrencySamples == {1, 2}
IpmSamples == {45, 60}

\* loop time is a float of seconds in the code; here it is counted in
\* milliseconds
Ms(seconds) == 1000 * seconds

\* loop.time() is a monotonic clock: its value when the first caller arrives
LoopStart == Ms(60)

Max(a, b) == IF a >= b THEN a ELSE b

\* self._interval = 60.0 / max(ipm, 1), to the millisecond
Interval(ipm) == Ms(60) \div Max(ipm, 1)

\* _ImageRateLimiter(IMAGE_GEN_MAX_CONCURRENT, IMAGE_GEN_IPM).__init__
NewLimiter(cfg) ==
    [created |-> TRUE, sem |-> cfg.max_concurrent, interval |-> Interval(cfg.ipm),
     last_call |-> 0, lock |-> 0]

\* _get_rate_limiter(): the module's instance, created by the first call
GetRateLimiter(limiter, cfg) == IF limiter.created THEN limiter ELSE NewLimiter(cfg)

ImageFunctions == {"generate_image", "generate_image_with_references", "edit_image"}

\* faulty variant: acquire never waits
SemFree_always(value) == TRUE

\* asyncio.Semaphore.acquire returns only while the counter is positive
SemFree(value) == value > 0

\* faulty variant: no pacing
PaceWait_none(interval, now, last_call) == 0

\* wait = self._interval - (now - self._last_call)
PaceWait(interval, now, last_call) == interval - (now - last_call)

\* self._last_call = time(); the lock is released; __aenter__ returns
Granted(limiter, now) == [limiter EXCEPT !.last_call = now, !.lock = 0]

\* a caller reaches `async with _get_rate_limiter():`
EnterLimiter(c, fn) ==
    /\ image_callers[c].pc = "idle"
    /\ rate_limiter' = GetRateLimiter(rate_limiter, image_cfg)
    /\ image_callers' = [image_callers EXCEPT ![c].pc = "acquire", ![c].fn = fn]
    /\ UNCHANGED <<image_cfg, loop_time, last_grant, retry>>
    /\ UNCHANGED notImage

\* __aenter__: await self._sem.acquire()
SemAcquire(c) ==
    /\ image_callers[c].pc = "acquire"
    /\ SemFree(rate_limiter.sem)
    /\ rate_limiter' = [rate_limiter EXCEPT !.sem = @ - 1]
    /\ image_callers' = [image_callers EXCEPT ![c].pc = "lock"]
    /\ UNCHANGED <<image_cfg, loop_time, last_grant, retry>>
    /\ UNCHANGED notImage

\* __aenter__: async with self._lock, up to the sleep or, without one, to
\* the return
LockAcquire(c) ==
    /\ image_callers[c].pc = "lock"
    /\ rate_limiter.lock = 0
    /\ LET wait == PaceWait(rate_limiter.interval, loop_time, rate_limiter.last_call)
       IN IF wait > 0
          THEN /\ rate_limiter' = [rate_limiter EXCEPT !.lock = c]
               /\ image_callers' = [image_callers EXCEPT
                     ![c].pc = "pace", ![c].wake = loop_time + wait]
               /\ UNCHANGED last_grant
          ELSE /\ rate_limiter' = Granted(rate_limiter, loop_time)
               /\ image_callers' = [image_callers EXCEPT ![c].pc = "inside"]
               /\ last_grant' = loop_time
    /\ UNCHANGED <<image_cfg, loop_time, retry>>
    /\ UNCHANGED notImage

\* __aenter__: asyncio.sleep(wait) is over (not before `wait` has passed)
PaceWake(c) ==
    /\ image_callers[c].pc = "pace"
    /\ loop_time >= image_callers[c].wake
    /\ rate_limiter' = Granted(rate_limiter, loop_time)
    /\ image_callers' = [image_callers EXCEPT ![c].pc = "inside"]
    /\ last_grant' = loop_time
    /\ UNCHANGED <<image_cfg, loop_time, retry>>
    /\ UNCHANGED notImage

\* faulty variant: the slot is kept when the body raised
Released_unless_raised(value, raised) == IF raised THEN value ELSE value + 1

\* __aexit__(self, *exc): self._sem.release(), whatever exc is
Released(value, raised) == value + 1

\* the body of the `async with` returns or raises (after the retries and
\* the fallback, if any); __aexit__ releases
LeaveLimiter(c, raised) ==
    /\ image_callers[c].pc = "inside"
    /\ rate_limiter' = [rate_limiter EXCEPT !.sem = Released(@, raised)]
    /\ image_callers' = [image_callers EXCEPT ![c] =
          [IdleImageCaller EXCEPT !.pc = IF raised THEN "raised" ELSE "done"]]
    /\ UNCHANGED <<image_cfg, loop_time, last_grant, retry>>
    /\ UNCHANGED notImage

\* loop time passes, up to the next event: the end of a pacing caller's
\* asyncio.sleep(wait), or the next whole second (when other callers arrive
\* and calls finish)
Tick ==
    /\ \E t \in {Ms(loop_time \div Ms(1) + 1)}
                 \cup { image_callers[c].wake : c \in 1..MaxImageCallers } :
         /\ t > loop_time
         /\ t <= LoopStart + Ms(MaxTicks)
         /\ loop_time' = t
    /\ UNCHANGED <<image_cfg, rate_limiter, image_callers, last_grant, retry>>
    /\ UNCHANGED notImage

\* a serving process in which no image function has been called yet
InitLimiter ==
    /\ gen_jobs = << >> /\ atlas = << >>
    /\ pc = "serving" /\ resume_pc = "none"
    /\ InitRest
    /\ InitSubmit
    /\ image_cfg \in [max_concurrent : ConcurrencySamples, ipm : IpmSamples]
    /\ rate_limiter = NoLimiter
    /\ image_callers = [c \in 1..MaxImageCallers |-> IdleImageCaller]
    /\ loop_time = LoopStart
    /\ last_grant = NoGrant
    /\ retry = NoRetry
    /\ InitIdleFilm

NextLimiter ==
    \/ \E c \in 1..MaxImageCallers, fn \in ImageFunctions : EnterLimiter(c, fn)
    \/ \E c \in 1..MaxImageCallers : SemAcquire(c)
    \/ \E c \in 1..MaxImageCallers : LockAcquire(c)
    \/ \E c \in 1..MaxImageCallers : PaceWake(c)
    \/ \E c \in 1..MaxImageCallers, raised \in BOOLEAN : LeaveLimiter(c, raised)
    \/ Tick

SpecLimiter == InitLimiter /\ [][NextLimiter]_vars

(***************************************************************************)
(* The retry loops: imagen._genai_generate_content, imagen.edit_image and  *)
(* gemini.generate_text.                                                   *)
(***************************************************************************)
\* imagen.py and gemini.py both: MAX_RETRIES = 3, RETRY_BASE_DELAY = 5
MAX_RETRIES == 3
RETRY_BASE_DELAY == 5
\* imagen.PER_CALL_TIMEOUT
PER_CALL_TIMEOUT == 60

\* imagen._TRANSIENT_MARKERS
TRANSIENT_MARKERS ==
    {"429", "503", "500", "502", "504", "UNAVAILABLE", "RESOURCE_EXHAUSTED",
     "DEADLINE_EXCEEDED", "INTERNAL", "timed out"}

\* the substrings gemini.generate_text looks for
RetryableMarkers == {"429", "RESOURCE_EXHAUSTED", "503", "UNAVAILABLE"}

\* An exception's str() is the sequence of its parts; a marker is "in" the
\* string when it is one of the parts.  str.upper() of a part:
UpperPart(part) ==
    CASE part = "timed out" -> "TIMED OUT"
      [] part = "unavailable" -> "UNAVAILABLE"
      [] part = "service " -> "SERVICE "
      [] part = "The read operation " -> "THE READ OPERATION "
      [] part = "Google image gen " -> "GOOGLE IMAGE GEN "
      [] part = "Google image edit " -> "GOOGLE IMAGE EDIT "
      [] part = " after 60s" -> " AFTER 60S"
      [] part = "No image in response" -> "NO IMAGE IN RESPONSE"
      [] OTHER -> part

\* str(error).upper()
Upper(msg) == [i \in DOMAIN msg |-> UpperPart(msg[i])]

\* imagen._is_transient: any(t in str(error).upper() for t in _TRANSIENT_MARKERS)
is_transient(msg) == \E i \in DOMAIN msg : Upper(msg)[i] \in TRANSIENT_MARKERS

\* gemini.generate_text: is_retryable (the string is searched as it is)
is_retryable(msg) == \E i \in DOMAIN msg : msg[i] \in RetryableMarkers

\* what the Google call (or _extract_genai_image on its response) can raise
ErrorSamples ==
    { <<"503", "UNAVAILABLE">>, <<"429", "RESOURCE_EXHAUSTED">>,
      <<"500", "INTERNAL">>, <<"service ", "unavailable">>,
      <<"400", "INVALID_ARGUMENT">>, <<"The read operation ", "timed out">>,
      <<"No image in response">> }

\* TimeoutError(f"Google image gen timed out after {PER_CALL_TIMEOUT}s")
TimeoutMessage(fn) ==
    IF fn = "edit_image"
    THEN <<"Google image edit ", "timed out", " after 60s">>
    ELSE <<"Google image gen ", "timed out", " after 60s">>

\* random.uniform(0, 2), in whole seconds
JitterSamples == {0, 1, 2}

RetryFunctions == {"_genai_generate_content", "edit_image", "generate_text"}

\* the classification each function applies to the exception it caught
Transient(fn, msg) ==
    IF fn = "generate_text" THEN is_retryable(msg) ELSE is_transient(msg)

\* faulty variant: the loop goes on whatever the attempt number
AttemptsLeft_always(attempt) == TRUE

\* attempt < MAX_RETRIES, in `for attempt in range(MAX_RETRIES + 1)`
AttemptsLeft(attempt) == attempt < MAX_RETRIES

\* delay = RETRY_BASE_DELAY * (2 ** attempt) [+ random.uniform(0, 2)]
BackoffDelay(fn, attempt, jitter) ==
    RETRY_BASE_DELAY * (2 ^ attempt) + (IF fn = "generate_text" THEN 0 ELSE jitter)

\* faulty variant: the fallback is tried after any error
FallbackTried_any(fn, last_error, fallback_prompt, openai) ==
    IF fn = "_genai_generate_content" THEN fallback_prompt /\ openai
    ELSE IF fn = "edit_image" THEN openai
    ELSE FALSE

\* after the loop: `if _is_transient(last_error) and fallback_prompt and
\* _get_openai_client()` (edit_image: without the prompt; generate_text has
\* no fallback)
FallbackTried(fn, last_error, fallback_prompt, openai) ==
    IF fn = "_genai_generate_content"
    THEN is_transient(last_error) /\ fallback_prompt /\ openai
    ELSE IF fn = "edit_image" THEN is_transient(last_error) /\ openai
    ELSE FALSE

\* the loop is left with last_error: fallback, or `raise last_error`
AfterLoop(r, failure, last_error) ==
    [r EXCEPT !.calls = @ + 1, !.failure = failure, !.last_error = last_error,
              !.pc = IF FallbackTried(r.fn, last_error, r.fallback_prompt, r.openai)
                     THEN "fallback" ELSE "raised"]

\* the next iteration is entered, after a sleep of `delay` seconds (0: none)
Retried(r, failure, last_error, delay) ==
    [r EXCEPT !.calls = @ + 1, !.failure = failure, !.last_error = last_error,
              !.retries = Append(@, [attempt |-> r.attempt, after |-> failure,
                                     delay |-> delay]),
              !.pc = IF delay > 0 THEN "backoff" ELSE "call",
              !.attempt = IF delay > 0 THEN @ ELSE @ + 1]

\* seconds the Google call takes to return or raise (a timeout takes
\* PER_CALL_TIMEOUT)
DurationSamples == {0, 3}

\* one iteration of the loop: the Google call, started now, returns, times
\* out (asyncio.wait_for; generate_text has no timeout) or raises `msg`
\* after `duration` seconds
GoogleAttempt(kind, msg, jitter, duration) ==
    /\ retry.pc = "call"
    /\ kind = "timeout" => retry.fn # "generate_text"
    /\ LET called == [retry EXCEPT !.starts = Append(@, loop_time)]
       IN retry' =
            IF kind = "ok"
            THEN [called EXCEPT !.calls = @ + 1, !.pc = "returned"]
            ELSE IF kind = "timeout"
            THEN IF AttemptsLeft(retry.attempt)
                 THEN Retried(called, "timeout", TimeoutMessage(retry.fn), 0)
                 ELSE AfterLoop(called, "timeout", TimeoutMessage(retry.fn))
            ELSE IF Transient(retry.fn, msg) /\ AttemptsLeft(retry.attempt)
                 THEN Retried(called, "error", msg,
                              BackoffDelay(retry.fn, retry.attempt, jitter))
                 ELSE AfterLoop(called, "error", msg)
    /\ loop_time' = loop_time + Ms(IF kind = "timeout" THEN PER_CALL_TIMEOUT ELSE duration)
    /\ UNCHANGED <<image_cfg, rate_limiter, image_callers, last_grant>>
    /\ UNCHANGED notImage

\* await asyncio.sleep(delay) is over; continue
BackoffOver ==
    /\ retry.pc = "backoff"
    /\ retry' = [retry EXCEPT !.pc = "call", !.attempt = @ + 1]
    /\ loop_time' = loop_time + Ms(retry.retries[Len(retry.retries)].delay)
    /\ UNCHANGED <<image_cfg, rate_limiter, image_callers, last_grant>>
    /\ UNCHANGED notImage

\* _openai_generate / _openai_edit returns, or raises and last_error is raised
OpenAIFallback(ok) ==
    /\ retry.pc = "fallback"
    /\ retry' = [retry EXCEPT !.fallbacks = @ + 1,
                                !.pc = IF ok THEN "returned" ELSE "raised"]
    /\ UNCHANGED <<image_cfg, rate_limiter, image_callers, loop_time, last_grant>>
    /\ UNCHANGED notImage

\* the invocations: generate_text has neither fallback nor OpenAI client,
\* edit_image always has its feedback text
RetryStarts ==
    { [NoRetry EXCEPT !.fn = fn, !.pc = "call", !.fallback_prompt = fp, !.openai = oa] :
        fn \in RetryFunctions, fp \in BOOLEAN, oa \in BOOLEAN }

RetryStartOk(r) ==
    /\ r.fn = "generate_text" => ~r.fallback_prompt /\ ~r.openai
    /\ r.fn = "edit_image" => r.fallback_prompt

InitRetry ==
    /\ gen_jobs = << >> /\ atlas = << >>
    /\ pc = "serving" /\ resume_pc = "none"
    /\ InitRest
    /\ InitSubmit
    /\ image_cfg = [max_concurrent |-> IMAGE_GEN_MAX_CONCURRENT, ipm |-> IMAGE_GEN_IPM]
    /\ rate_limiter = NoLimiter
    /\ image_callers = [c \in 1..MaxImageCallers |-> IdleImageCaller]
    /\ loop_time = 0
    /\ last_grant = NoGrant
    /\ retry \in { r \in RetryStarts : RetryStartOk(r) }
    /\ InitIdleFilm

NextRetry ==
    \/ \E kind \in {"ok", "timeout", "error"}, msg \in ErrorSamples,
          jitter \in JitterSamples, duration \in DurationSamples :
            GoogleAttempt(kind, msg, jitter, duration)
    \/ BackoffOver
    \/ \E ok \in BOOLEAN : OpenAIFallback(ok)

SpecRetry == InitRetry /\ [][NextRetry]_vars

(***************************************************************************)
(* film.generate_shot_with_retry, the retry loop around veo.generate_video.*)
(***************************************************************************)
\* generate_shot_with_retry(..., max_retries: int = 2) and its
\* asyncio.sleep(2) before a retry
max_retries == 2
SHOT_RETRY_SLEEP == 2

\* one iteration of `for attempt in range(max_retries + 1)`: generate_video
\* returns, or raises `msg`, which `except Exception` catches whatever it is;
\* after the loop, Exception("Shot n failed after 3 attempts: ...")
ShotAttempt(ok, msg, duration) ==
    /\ retry.fn = "generate_shot_with_retry"
    /\ retry.pc = "call"
    /\ LET called == [retry EXCEPT !.starts = Append(@, loop_time)]
       IN retry' =
            IF ok THEN [called EXCEPT !.calls = @ + 1, !.pc = "returned"]
            ELSE IF retry.attempt < max_retries
            THEN Retried(called, "error", msg, SHOT_RETRY_SLEEP)
            ELSE AfterLoop(called, "error", msg)
    /\ loop_time' = loop_time + Ms(duration)
    /\ UNCHANGED <<image_cfg, rate_limiter, image_callers, last_grant>>
    /\ UNCHANGED notImage

\* process_single_shot or run_shot_regeneration calls generate_shot_with_retry
InitShotRetry ==
    /\ gen_jobs = << >> /\ atlas = << >>
    /\ pc = "serving" /\ resume_pc = "none"
    /\ InitRest
    /\ InitSubmit
    /\ image_cfg = [max_concurrent |-> IMAGE_GEN_MAX_CONCURRENT, ipm |-> IMAGE_GEN_IPM]
    /\ rate_limiter = NoLimiter
    /\ image_callers = [c \in 1..MaxImageCallers |-> IdleImageCaller]
    /\ loop_time = 0
    /\ last_grant = NoGrant
    /\ retry = [NoRetry EXCEPT !.fn = "generate_shot_with_retry", !.pc = "call"]
    /\ InitIdleFilm

NextShotRetry ==
    \/ \E ok \in BOOLEAN, msg \in ErrorSamples, duration \in DurationSamples :
          ShotAttempt(ok, msg, duration)
    \/ BackoffOver

SpecShotRetry == InitShotRetry /\ [][NextShotRetry]_vars

(***************************************************************************)
(* film.py: generate_film, run_film_generation with its process_single_shot *)
(* tasks, regenerate_shot and run_shot_regeneration, for one film; and      *)
(* ffmpeg.assemble_videos as they call it.                                  *)
(***************************************************************************)
MAX_SHOTS_FOR_TESTING == 3

\* Beat.number (beat_number or scene_number or 0) of the beats a request
\* carries: any numbers, equal ones included
BeatNumberSamples == {1, 2}

\* story.beats of a request
Stories == UNION { [1..k -> BeatNumberSamples] : k \in 0..MaxBeats }

\* job.story.beats[:MAX_SHOTS_FOR_TESTING]
BeatsToProcess(bs) ==
    SubSeq(bs, 1, IF Len(bs) < MAX_SHOTS_FOR_TESTING THEN Len(bs)
                  ELSE MAX_SHOTS_FOR_TESTING)

\* os.path.join(TEMP_DIR, f"{film_id}_shot_{shot_number:02d}.mp4")
ShotFile(number) == <<"shot", number>>

\* faulty variant: the list is left in completion order
SortShots_none(cs) == cs

\* job.completed_shots.sort(key=lambda s: s.number): a stable sort
RECURSIVE SortShots(_)
SortShots(cs) ==
    IF cs = << >> THEN << >>
    ELSE LET front == SortShots(SubSeq(cs, 1, Len(cs) - 1))
             s == cs[Len(cs)]
             k == Cardinality({ i \in 1..Len(front) : front[i].number <= s.number })
         IN SubSeq(front, 1, k) \o <<s>> \o SubSeq(front, k + 1, Len(front))

\* [shot.video_path for shot in job.completed_shots]
VideoPaths(cs) == [i \in 1..Len(cs) |-> cs[i].video_path]

ShotNumbers(cs) == [i \in 1..Len(cs) |-> cs[i].number]

\* every task handed to gather has returned or raised
Finished(ts) == \A i \in 1..Len(ts) : ts[i].pc \in {"done", "failed"}

\* faulty variant: gather returns as soon as one task has raised
GatherReady_first_exception(ts) ==
    Finished(ts) \/ \E i \in 1..Len(ts) : ts[i].pc = "failed"

\* await asyncio.gather(*tasks, return_exceptions=True)
GatherReady(ts) == Finished(ts)

\* failures: (beats_to_process[i].number, str(result)) of the results that
\* are exceptions
Failures(bs, ts) ==
    LET failed == SelectSeq(Ids(ts), LAMBDA i : ts[i].pc = "failed")
    IN [k \in 1..Len(failed) |-> [number |-> bs[failed[k]], err |-> ts[failed[k]].error]]

\* faulty variant: a film without a single shot goes on to assembly
AllShotsFailed_never(failures, bs) == FALSE

\* if failures: ... if len(failures) == len(beats_to_process): raise
AllShotsFailed(failures, bs) == failures # << >> /\ Len(failures) = Len(bs)

\* faulty variant: the film is marked ready when assembly starts
StatusWhileAssembling_ready(st) == "ready"

\* job.status between `job.phase = "assembling"` and the return of
\* assemble_videos: not assigned
StatusWhileAssembling(st) == st

\* assembly_result["output_path"]: the only input, or a new file
\* assembled_<uuid>.mp4
OutputPath(call, k) ==
    IF Len(call.video_paths) = 1 THEN call.video_paths[1] ELSE <<"assembled", k>>

\* a call of assemble_videos(video_paths, crossfade_duration=0.0), up to its
\* first await: no path raises ValueError; one path goes to ffprobe
\* (_get_video_duration); more go to ffmpeg (_assemble_concat)
AssemblyCall(by, cs) ==
    [by |-> by, numbers |-> ShotNumbers(cs), video_paths |-> VideoPaths(cs),
     present |-> [i \in 1..Len(cs) |-> cs[i].video_path \in disk],
     state |-> IF cs = << >> THEN "raised"
               ELSE IF Len(cs) = 1 THEN "ffprobe" ELSE "ffmpeg"]

\* _assemble_concat's ffmpeg runs in its worker thread: it opens the listed
\* files and writes the output file, or fails (returncode != 0); the
\* caller is still suspended
AssembleConcat(k, ok) ==
    /\ k \in 1..Len(assemblies)
    /\ assemblies[k].state = "ffmpeg"
    /\ LET call == assemblies[k]
       IN IF ok /\ \A i \in 1..Len(call.video_paths) : call.video_paths[i] \in disk
          THEN /\ disk' = disk \cup {OutputPath(call, k)}
               /\ assemblies' = [assemblies EXCEPT ![k].state = "ffprobe"]
          ELSE /\ assemblies' = [assemblies EXCEPT ![k].state = "error"]
               /\ UNCHANGED disk
    /\ UNCHANGED <<beats, film, film_pc, shots, regens>>
    /\ UNCHANGED notFilm

\* _get_video_duration's ffprobe runs in its worker thread: it opens the
\* output file, or fails (returncode != 0); the caller is still suspended
AssembleProbe(k, ok) ==
    /\ k \in 1..Len(assemblies)
    /\ assemblies[k].state = "ffprobe"
    /\ assemblies' = [assemblies EXCEPT ![k].state =
                        IF ok /\ OutputPath(assemblies[k], k) \in disk
                        THEN "ok" ELSE "error"]
    /\ UNCHANGED <<beats, film, film_pc, shots, regens, disk>>
    /\ UNCHANGED notFilm

\* run_film_generation up to gather: the beats are cut to
\* MAX_SHOTS_FOR_TESTING and one process_single_shot coroutine is made per beat
RunFilmStart ==
    /\ film_pc = "start"
    /\ film' = [film EXCEPT !.total_shots = Len(BeatsToProcess(beats)),
                            !.phase = "filming"]
    /\ shots' = [i \in 1..Len(BeatsToProcess(beats)) |-> [pc |-> "scene_refs", error |-> "none"]]
    /\ film_pc' = "gather"
    /\ UNCHANGED <<beats, regens, disk, assemblies>>
    /\ UNCHANGED notFilm

\* process_single_shot's await of generate_scene_references returns (then
\* job.cost_scene_refs += ..., and generate_shot_with_retry is awaited) or
\* raises
ShotSceneRefs(i, ok) ==
    /\ shots[i].pc = "scene_refs"
    /\ IF ok
       THEN /\ shots' = [shots EXCEPT ![i].pc = "video"]
            /\ film' = [film EXCEPT !.cost_scene_refs = @ + 1]
       ELSE /\ shots' = [shots EXCEPT ![i] = [pc |-> "failed",
                                             error |-> "scene references"]]
            /\ UNCHANGED film
    /\ UNCHANGED <<beats, film_pc, regens, disk, assemblies>>
    /\ UNCHANGED notFilm

\* process_single_shot's await of generate_shot_with_retry returns (then
\* job.cost_videos += ..., and download_video is awaited) or raises
ShotVideo(i, ok) ==
    /\ shots[i].pc = "video"
    /\ IF ok
       THEN /\ shots' = [shots EXCEPT ![i].pc = "download"]
            /\ film' = [film EXCEPT !.cost_videos = @ + 1]
       ELSE /\ shots' = [shots EXCEPT ![i] = [pc |-> "failed",
                                             error |-> "failed after 3 attempts"]]
            /\ UNCHANGED film
    /\ UNCHANGED <<beats, film_pc, regens, disk, assemblies>>
    /\ UNCHANGED notFilm

\* download_video's await of client.get returns (the file is written, and
\* the client's __aexit__ is awaited) or raises
ShotDownload(i, ok) ==
    /\ shots[i].pc = "download"
    /\ IF ok
       THEN /\ shots' = [shots EXCEPT ![i].pc = "record"]
            /\ disk' = disk \cup {ShotFile(BeatsToProcess(beats)[i])}
       ELSE /\ shots' = [shots EXCEPT ![i] = [pc |-> "failed", error |-> "download"]]
            /\ UNCHANGED disk
    /\ UNCHANGED <<beats, film, film_pc, regens, assemblies>>
    /\ UNCHANGED notFilm

\* download_video has returned: the append of the CompletedShot, and
\* current_shot
ShotRecord(i) ==
    /\ shots[i].pc = "record"
    /\ LET number == BeatsToProcess(beats)[i]
       IN film' = [film EXCEPT
            !.completed_shots = Append(@, [number |-> number,
                                           video_path |-> ShotFile(number)]),
            !.current_shot = Len(film.completed_shots) + 1]
    /\ shots' = [shots EXCEPT ![i].pc = "done"]
    /\ UNCHANGED <<beats, film_pc, regens, disk, assemblies>>
    /\ UNCHANGED notFilm

\* run_film_generation after gather: the failures are collected; when every
\* shot failed the exception goes to the except branch; otherwise the
\* completed shots are sorted and assemble_videos is called, which raises
\* at once when there is no shot
GatherDone ==
    /\ film_pc = "gather"
    /\ GatherReady(shots)
    /\ LET failures == Failures(BeatsToProcess(beats), shots)
           sorted == SortShots(film.completed_shots)
       IN IF AllShotsFailed(failures, BeatsToProcess(beats))
          THEN /\ film' = [film EXCEPT
                    !.status = "failed",
                    !.error_message = [kind |-> "All shots failed. ", shots |-> failures]]
               /\ film_pc' = "returned"
               /\ UNCHANGED assemblies
          ELSE /\ assemblies' = Append(assemblies,
                                       AssemblyCall("run_film_generation", sorted))
               /\ IF sorted = << >>
                  THEN /\ film' = [film EXCEPT
                            !.completed_shots = sorted,
                            !.phase = "assembling",
                            !.status = "failed",
                            !.error_message = [kind |-> "assembly error",
                                               shots |-> << >>]]
                       /\ film_pc' = "returned"
                  ELSE /\ film' = [film EXCEPT !.completed_shots = sorted,
                                               !.phase = "assembling",
                                               !.status = StatusWhileAssembling(@)]
                       /\ film_pc' = "assemble"
    /\ UNCHANGED <<beats, shots, regens, disk>>
    /\ UNCHANGED notFilm

\* the call of assemble_videos that run_film_generation made
FilmAssembly ==
    CHOOSE k \in 1..Len(assemblies) : assemblies[k].by = "run_film_generation"

\* run_film_generation resumes: assemble_videos returns (final_video_path,
\* then status "ready") or raises (except branch: status "failed", str(e))
FilmAssembled ==
    /\ film_pc = "assemble"
    /\ LET k == FilmAssembly
           call == assemblies[k]
       IN /\ call.state \in {"ok", "error"}
          /\ IF call.state = "error"
             THEN /\ film' = [film EXCEPT
                       !.status = "failed",
                       !.error_message = [kind |-> "assembly error", shots |-> << >>]]
                  /\ assemblies' = [assemblies EXCEPT ![k].state = "raised"]
             ELSE /\ film' = [film EXCEPT !.final_video_path = OutputPath(call, k),
                                          !.status = "ready"]
                  /\ assemblies' = [assemblies EXCEPT ![k].state = "returned"]
    /\ film_pc' = "returned"
    /\ UNCHANGED <<beats, shots, regens, disk>>
    /\ UNCHANGED notFilm

\* POST /{film_id}/shot/{shot_number}/regenerate: the film must be ready or
\* failed and the story must have a beat of that number; the background task
\* starts
RegenerateShot(r, number) ==
    /\ regens[r].pc = "idle"
    /\ \A q \in 1..(r - 1) : regens[q].pc # "idle"
    /\ film.status \in {"ready", "failed"}
    /\ \E i \in 1..Len(beats) : beats[i] = number
    /\ regens' = [regens EXCEPT ![r] = [IdleRegen EXCEPT !.pc = "scene_refs", !.number = number]]
    /\ UNCHANGED <<beats, film, film_pc, shots, disk, assemblies>>
    /\ UNCHANGED notFilm

\* jobs.handle_shot_regenerate (backend_path "/film/shot/regenerate"): the
\* film must be in film_jobs and the story must have a beat of that number;
\* run_shot_regeneration is awaited whatever the film's status
HandleShotRegenerate(r, number) ==
    /\ regens[r].pc = "idle"
    /\ \A q \in 1..(r - 1) : regens[q].pc # "idle"
    /\ film.status # "none"
    /\ \E i \in 1..Len(beats) : beats[i] = number
    /\ regens' = [regens EXCEPT ![r] = [IdleRegen EXCEPT !.pc = "scene_refs", !.number = number]]
    /\ UNCHANGED <<beats, film, film_pc, shots, disk, assemblies>>
    /\ UNCHANGED notFilm

\* run_shot_regeneration's except branch: only error_message is assigned
RegenRaised(r, job, err) ==
    /\ film' = [job EXCEPT !.error_message =
                  [kind |-> "regeneration failed: ",
                   shots |-> <<[number |-> regens[r].number, err |-> err]>>]]
    /\ regens' = [regens EXCEPT ![r].pc = "done"]

\* run_shot_regeneration's await of generate_scene_references returns (then
\* job.cost_scene_refs += ...) or raises
RegenSceneRefs(r, ok) ==
    /\ regens[r].pc = "scene_refs"
    /\ IF ok
       THEN /\ regens' = [regens EXCEPT ![r].pc = "video"]
            /\ film' = [film EXCEPT !.cost_scene_refs = @ + 1]
       ELSE RegenRaised(r, film, "scene references")
    /\ UNCHANGED <<beats, film_pc, shots, disk, assemblies>>
    /\ UNCHANGED notFilm

\* run_shot_regeneration's await of generate_shot_with_retry returns (then
\* job.cost_videos += ...) or raises
RegenVideo(r, ok) ==
    /\ regens[r].pc = "video"
    /\ IF ok
       THEN /\ regens' = [regens EXCEPT ![r].pc = "download"]
            /\ film' = [film EXCEPT !.cost_videos = @ + 1]
       ELSE RegenRaised(r, film, "failed after 3 attempts")
    /\ UNCHANGED <<beats, film_pc, shots, disk, assemblies>>
    /\ UNCHANGED notFilm

\* download_video's await of client.get returns (the file is written, and
\* the client's __aexit__ is awaited) or raises
RegenDownload(r, ok) ==
    /\ regens[r].pc = "download"
    /\ IF ok
       THEN /\ regens' = [regens EXCEPT ![r].pc = "replace",
                                        ![r].video_path = ShotFile(regens[r].number)]
            /\ disk' = disk \cup {ShotFile(regens[r].number)}
            /\ UNCHANGED film
       ELSE /\ RegenRaised(r, film, "download")
            /\ UNCHANGED disk
    /\ UNCHANGED <<beats, film_pc, shots, assemblies>>
    /\ UNCHANGED notFilm

\* next((s for s in job.completed_shots if s.number == beat.number), None)
ExistingShot(cs, number) == { i \in 1..Len(cs) : cs[i].number = number }

\* if os.path.exists(existing_shot.video_path): os.remove(...)
RemoveOld(files, cs, number) ==
    IF ExistingShot(cs, number) = {} THEN files
    ELSE files \ {cs[FirstOf(ExistingShot(cs, number))].video_path}

\* existing_shot.video_path = video_path, or the append of a new CompletedShot
ReplaceShot(cs, number, path) ==
    IF ExistingShot(cs, number) = {}
    THEN Append(cs, [number |-> number, video_path |-> path])
    ELSE [cs EXCEPT ![FirstOf(ExistingShot(cs, number))].video_path = path]

\* run_shot_regeneration from "Update completed shots" to the call of
\* assemble_videos
RegenReplace(r) ==
    /\ regens[r].pc = "replace"
    /\ LET number == regens[r].number
           sorted == SortShots(ReplaceShot(film.completed_shots, number,
                                           regens[r].video_path))
       IN /\ disk' = RemoveOld(disk, film.completed_shots, number)
          /\ film' = [film EXCEPT !.completed_shots = sorted]
          /\ assemblies' = Append(assemblies,
               [AssemblyCall("run_shot_regeneration", sorted) EXCEPT
                  !.present = [i \in 1..Len(sorted) |->
                     sorted[i].video_path \in RemoveOld(disk, film.completed_shots, number)]])
          /\ regens' = [regens EXCEPT ![r].pc = "assemble",
                                      ![r].assembly = Len(assemblies) + 1]
    /\ UNCHANGED <<beats, film_pc, shots>>
    /\ UNCHANGED notFilm

\* run_shot_regeneration resumes: assemble_videos returns
\* (final_video_path, then status "ready") or raises (except branch)
RegenAssembled(r) ==
    /\ regens[r].pc = "assemble"
    /\ LET k == regens[r].assembly
           call == assemblies[k]
       IN /\ call.state \in {"ok", "error"}
          /\ IF call.state = "error"
             THEN /\ RegenRaised(r, film, "assembly error")
                  /\ assemblies' = [assemblies EXCEPT ![k].state = "raised"]
             ELSE /\ film' = [film EXCEPT !.final_video_path = OutputPath(call, k),
                                          !.status = "ready"]
                  /\ regens' = [regens EXCEPT ![r].pc = "done"]
                  /\ assemblies' = [assemblies EXCEPT ![k].state = "returned"]
    /\ UNCHANGED <<beats, film_pc, shots, disk>>
    /\ UNCHANGED notFilm

\* generate_film has stored the FilmJob and added run_film_generation as a
\* background task
InitFilm ==
    /\ gen_jobs = << >> /\ atlas = << >>
    /\ pc = "serving" /\ resume_pc = "none"
    /\ InitRest
    /\ InitSubmit
    /\ InitImage
    /\ beats \in Stories
    /\ film = NewFilmJob(Len(beats))
    /\ film_pc = "start"
    /\ shots = << >>
    /\ regens = [r \in 1..MaxRegens |-> IdleRegen]
    /\ disk = {}
    /\ assemblies = << >>
    /\ video_loop = NoLoop

NextFilm ==
    \/ RunFilmStart
    \/ \E i \in 1..Len(shots), ok \in BOOLEAN : ShotSceneRefs(i, ok)
    \/ \E i \in 1..Len(shots), ok \in BOOLEAN : ShotVideo(i, ok)
    \/ \E i \in 1..Len(shots), ok \in BOOLEAN : ShotDownload(i, ok)
    \/ \E i \in 1..Len(shots) : ShotRecord(i)
    \/ GatherDone
    \/ \E k \in 1..(1 + MaxRegens), ok \in BOOLEAN : AssembleConcat(k, ok)
    \/ \E k \in 1..(1 + MaxRegens), ok \in BOOLEAN : AssembleProbe(k, ok)
    \/ FilmAssembled
    \/ \E r \in 1..MaxRegens, n \in BeatNumberSamples : RegenerateShot(r, n)
    \/ \E r \in 1..MaxRegens, n \in BeatNumberSamples : HandleShotRegenerate(r, n)
    \/ \E r \in 1..MaxRegens, ok \in BOOLEAN : RegenSceneRefs(r, ok)
    \/ \E r \in 1..MaxRegens, ok \in BOOLEAN : RegenVideo(r, ok)
    \/ \E r \in 1..MaxRegens, ok \in BOOLEAN : RegenDownload(r, ok)
    \/ \E r \in 1..MaxRegens : RegenReplace(r)
    \/ \E r \in 1..MaxRegens : RegenAssembled(r)

SpecFilm == InitFilm /\ [][NextFilm]_vars

(***************************************************************************)
(* The submit/poll loops: seedance.generate_video and veo.generate_video.  *)
(***************************************************************************)
POLL_INTERVAL_SECONDS == 3
SEEDANCE_HEARTBEAT_EVERY == 30
\* veo.generate_video(..., poll_interval: int = 10)
poll_interval == 10

\* seconds between two polls
PollSleep(provider) ==
    IF provider = "seedance" THEN POLL_INTERVAL_SECONDS ELSE poll_interval

\* the arguments generate_video is called with: seedance takes an optional
\* job_id (0: None), generation_id and scene_number (recovery_ids: both
\* given) and heartbeat_callback; veo takes none of them
LoopStarts ==
    { [NoLoop EXCEPT !.provider = "seedance", !.pc = "submit", !.job_id = j,
                     !.recovery_ids = ids, !.heartbeat_callback = hb] :
        j \in {0, 1}, ids \in BOOLEAN, hb \in BOOLEAN }
    \cup { [NoLoop EXCEPT !.provider = "veo", !.pc = "submit"] }

\* generate_video raises
LoopRaised(loop, error) == [loop EXCEPT !.pc = "raised", !.raised = error]

\* faulty variant: the prediction is never persisted
PersistsPrediction_never(loop) == FALSE

\* seedance: if job_id and generation_id is not None and scene_number is not None
PersistsPrediction(loop) == Truthy(loop.job_id) /\ loop.recovery_ids

\* seedance, step 1: the POST returns the prediction id, or raises
SeedanceSubmit(ok) ==
    /\ video_loop.provider = "seedance"
    /\ video_loop.pc = "submit"
    /\ video_loop' =
         IF ~ok THEN LoopRaised(video_loop, "submit error")
         ELSE [video_loop EXCEPT
                 !.pc = IF PersistsPrediction(video_loop) THEN "persist" ELSE "polling"]
    /\ UNCHANGED <<gen_jobs, store_faults>>
    /\ UNCHANGED notLoop

\* seedance: async_update_gen_job(job_id, "generating", result={prediction_id,
\* generation_id, scene_number, polling}); its exception leaves generate_video
SeedancePersist(outcome) ==
    /\ video_loop.provider = "seedance"
    /\ video_loop.pc = "persist"
    /\ outcome \in StoreOutcomes
    /\ store_faults' = store_faults + Raises(outcome)
    /\ gen_jobs' = StoreWrite(outcome, gen_jobs,
         update_gen_job(gen_jobs, video_loop.job_id, "generating", TRUE,
                        PredictionRef(1, 1, 1), FALSE, NoError))
    /\ video_loop' =
         IF outcome = "ok"
         THEN [video_loop EXCEPT !.pc = "polling", !.persisted = @ + 1]
         ELSE LoopRaised([video_loop EXCEPT
                            !.persisted = IF outcome = "lost" THEN @ + 1 ELSE @],
                         "store error")
    /\ UNCHANGED notLoop

\* the heartbeat is due: heartbeat_callback and elapsed - last_heartbeat >= 30
HeartbeatDue(loop, elapsed) ==
    loop.heartbeat_callback /\ elapsed - loop.last_heartbeat >= SEEDANCE_HEARTBEAT_EVERY

\* seedance, step 2: await asyncio.sleep(POLL_INTERVAL_SECONDS) is over:
\* elapsed += POLL_INTERVAL_SECONDS, and client.get is awaited
SeedanceSend ==
    /\ video_loop.provider = "seedance"
    /\ video_loop.pc = "polling"
    /\ video_loop' = [video_loop EXCEPT !.pc = "awaiting",
                                        !.elapsed = @ + PollSleep("seedance"),
                                        !.polls = @ + 1]
    /\ UNCHANGED <<gen_jobs, store_faults>>
    /\ UNCHANGED notLoop

\* while elapsed < POLL_TIMEOUT_SECONDS, tested after an iteration; after
\* the loop, TimeoutError
SeedanceNext(loop) ==
    IF loop.elapsed < POLL_TIMEOUT_SECONDS THEN [loop EXCEPT !.pc = "polling"]
    ELSE LoopRaised(loop, "TimeoutError")

\* the GET has answered (or raised): the loop body up to its next await,
\* which is heartbeat_callback() or the sleep of the next iteration
SeedanceAnswer(answer) ==
    /\ video_loop.provider = "seedance"
    /\ video_loop.pc = "awaiting"
    /\ video_loop' =
         IF ~answer.up THEN LoopRaised(video_loop, "transport error")
         ELSE IF answer.status \in {"completed", "succeeded"}
         THEN [video_loop EXCEPT !.pc = "returned"]
         ELSE IF answer.status = "failed"
         THEN LoopRaised(video_loop, "Seedance generation failed: ")
         ELSE IF HeartbeatDue(video_loop, video_loop.elapsed)
         THEN [video_loop EXCEPT !.pc = "heartbeat"]
         ELSE SeedanceNext(video_loop)
    /\ UNCHANGED <<gen_jobs, store_faults>>
    /\ UNCHANGED notLoop

\* heartbeat_callback(): touch_gen_job runs in its worker thread; the loop
\* is still suspended
SeedanceTouch(outcome) ==
    /\ video_loop.provider = "seedance"
    /\ video_loop.pc = "heartbeat"
    /\ outcome \in StoreOutcomes
    /\ gen_jobs' =
         IF Truthy(video_loop.job_id)
         THEN StoreWrite(outcome, gen_jobs, touch_gen_job(gen_jobs, video_loop.job_id))
         ELSE gen_jobs
    /\ store_faults' = store_faults + Raises(outcome)
    /\ video_loop' = [video_loop EXCEPT
                        !.pc = IF outcome = "ok" THEN "touched" ELSE "touch_raised"]
    /\ UNCHANGED notLoop

\* the loop resumes after the heartbeat: last_heartbeat = elapsed, or the
\* except branch that prints; then the loop test
SeedanceResume ==
    /\ video_loop.provider = "seedance"
    /\ video_loop.pc \in {"touched", "touch_raised"}
    /\ video_loop' = SeedanceNext([video_loop EXCEPT !.last_heartbeat =
                         IF video_loop.pc = "touched" THEN video_loop.elapsed ELSE @])
    /\ UNCHANGED <<gen_jobs, store_faults>>
    /\ UNCHANGED notLoop

\* what generate_videos and operations.get answer: the operation is not
\* done, done with a video, done without one, or the call raises
VeoAnswers == {"processing", "done", "empty", "raise"}

\* where generate_video stands after an answer of the provider
VeoAfter(loop, answer) ==
    IF answer = "raise" THEN LoopRaised(loop, "transport error")
    ELSE IF answer = "empty" THEN LoopRaised(loop, "ValueError")
    ELSE IF answer = "done" THEN [loop EXCEPT !.pc = "returned"]
    ELSE [loop EXCEPT !.pc = "polling"]

\* veo: genai_client.models.generate_videos(...) returns the operation, or
\* raises
VeoSubmit(answer) ==
    /\ video_loop.provider = "veo"
    /\ video_loop.pc = "submit"
    /\ video_loop' = VeoAfter(video_loop, answer)
    /\ UNCHANGED <<gen_jobs, store_faults>>
    /\ UNCHANGED notLoop

\* veo: one iteration of `while not operation.done` (sleep, operations.get)
\* and what follows the loop when the operation is done
VeoPoll(answer) ==
    /\ video_loop.provider = "veo"
    /\ video_loop.pc = "polling"
    /\ video_loop.polls < MaxVeoPolls
    /\ video_loop' = VeoAfter([video_loop EXCEPT !.elapsed = @ + PollSleep("veo"),
                                                 !.polls = @ + 1], answer)
    /\ UNCHANGED <<gen_jobs, store_faults>>
    /\ UNCHANGED notLoop

\* generate_video is called for a clip job that create_gen_job has made
InitVideo ==
    /\ gen_jobs = <<Row(1, "clip", 1, "generating", NullResult, NoError, Now - 1)>>
    /\ atlas = <<AtlasProcessing>>
    /\ pc = "serving" /\ resume_pc = "none"
    /\ InitRest
    /\ InitSubmit
    /\ InitImage
    /\ beats = << >>
    /\ film = NoFilmJob
    /\ film_pc = "idle"
    /\ shots = << >>
    /\ regens = [r \in 1..MaxRegens |-> IdleRegen]
    /\ disk = {}
    /\ assemblies = << >>
    /\ video_loop \in LoopStarts

NextVideo ==
    \/ \E ok \in BOOLEAN : SeedanceSubmit(ok)
    \/ \E o \in {"ok", "raise", "lost"} : SeedancePersist(o)
    \/ SeedanceSend
    \/ \E a \in AtlasSamples : SeedanceAnswer(a)
    \/ \E o \in {"ok", "raise", "lost"} : SeedanceTouch(o)
    \/ SeedanceResume
    \/ \E a \in VeoAnswers : VeoSubmit(a)
    \/ \E a \in VeoAnswers : VeoPoll(a)

SpecVideo == InitVideo /\ [][NextVideo]_vars

\* lifespan's startup alone, up to its yield
InitStartup ==
    /\ pc = "boot" /\ resume_pc = "none" /\ InitStore({0})
    /\ InitRest
    /\ InitSubmit
    /\ InitImage
    /\ InitIdleFilm

NextStartup ==
    \/ \E o \in {"ok", "raise", "lost"} : QueryStale(o)
    \/ \E o \in {"ok", "raise", "lost"} : FailStaleJob(o)
    \/ \E o, o2 \in {"ok", "raise", "lost"} : CheckClip(o, o2)
    \/ MarkReturn
    \/ LifespanSpawn

\* lifespan runs to its yield: none of its steps waits for another task
SpecStartup == InitStartup /\ [][NextStartup]_vars /\ WF_vars(NextStartup)

\* startup recovery and the resume tasks, with a store that may fail
Next ==
    \/ \E o \in {"ok", "raise", "lost"} : QueryStale(o)
    \/ \E o \in {"ok", "raise", "lost"} : FailStaleJob(o)
    \/ \E o, o2 \in {"ok", "raise", "lost"} : CheckClip(o, o2)
    \/ MarkReturn
    \/ LifespanSpawn
    \/ \E o \in {"ok", "raise", "lost"} : ResumeInterrupted(o)
    \/ \E j \in JobIds : PollSend(j)
    \/ \E j \in JobIds : PollAnswer(j)
    \/ \E j \in JobIds, o \in {"ok", "raise", "lost"} : PollWrite(j, o)
    \/ \E j \in JobIds : PollResume(j)
    \/ \E p \in JobIds : AtlasProgress(p)

Spec == Init /\ [][Next]_vars

(***************************************************************************)
(* Properties.                                                             *)
(***************************************************************************)
Terminal(row) == row.status \in {"completed", "failed"}

\* lifespan has yielded, and no recovery task is scheduled or polling
RecoveryQuiet ==
    /\ pc = "serving"
    /\ resume_pc # "scheduled"
    /\ \A j \in JobIds : poll[j].state \in {"none", "done"}

\* the run_job tasks of a job that have not finished
LiveTasks(id) == { k \in 1..Len(tasks) : tasks[k].job_id = id /\ tasks[k].st # "done" }

\* C1: under any interleaving of concurrent submit_job calls, gen_jobs holds
\* one row per (generation_id, job_type, target_id), and all callers that
\* were returned a job id for the same triple were returned the same id.
C1_OneRowSameId ==
    /\ \A i, k \in 1..Len(gen_jobs) :
         SameTriple(gen_jobs[i], gen_jobs[k]) => i = k
    /\ \A c, d \in 1..MaxCallers :
         (/\ callers[c].pc = "returned" /\ callers[d].pc = "returned"
          /\ SameTriple(callers[c], callers[d]))
         => callers[c].job_id = callers[d].job_id

\* two calls for one triple raced through create_gen_job (both upserted) and
\* both were returned an id
C1_Witness ==
    \E c, d \in 1..MaxCallers :
      /\ c # d
      /\ callers[c].pc = "returned" /\ callers[d].pc = "returned"
      /\ SameTriple(callers[c], callers[d])
      /\ \E k, m \in 1..Len(tasks) :
           k # m /\ tasks[k].job_id = callers[c].job_id
                 /\ tasks[m].job_id = callers[d].job_id

\* C2: at most one run_job task is scheduled or running for a job at any
\* time, whatever the interleaving of the submit_job calls for its triple.
C2_AtMostOneTask ==
    \A id \in 1..Len(gen_jobs) : Cardinality(LiveTasks(id)) <= 1

\* C3: once startup recovery is over, a stale clip job whose prediction the
\* startup check found completed/succeeded is completed, its result holding
\* the stored video URL.
C3_CompletedIsCompleted ==
    RecoveryQuiet =>
      \A j \in stale0 :
        reported[j] \in {"completed", "succeeded"}
        => /\ gen_jobs[j].status = "completed"
           /\ HasKey(gen_jobs[j].result.video_url)

\* C4: no step of startup recovery (mark_stale_jobs_failed, the clip check,
\* resume_interrupted_videos, resume_clip_polling) sends a generation request:
\* the number of submissions of every job stays what it was.
C4_NoResubmission ==
    [][\A j \in JobIds : requests'[j].POST = requests[j].POST]_vars

\* recovery has read the status of a prediction that was submitted once
C4_Witness ==
    \E j \in JobIds : requests[j].GET > 0 /\ requests[j].POST = 1

\* C5: once the restarted process is serving and no recovery task is left, no
\* job of the previous instance is still generating.
C5_NoneLeftGenerating ==
    RecoveryQuiet => \A j \in JobIds : gen_jobs[j].status # "generating"

\* C6: when startup recovery has finished, every job that was stale at
\* startup is completed or failed.
C6_StaleAllTerminal ==
    RecoveryQuiet => \A j \in stale0 : Terminal(gen_jobs[j])

\* C7: after startup recovery, every stale job whose result holds no
\* prediction_id is failed.
C7_NoPredictionFailed ==
    RecoveryQuiet =>
      \A j \in stale0 :
        ~Truthy(gen_jobs[j].result.prediction_id) => gen_jobs[j].status = "failed"

\* C8: a stale clip job whose prediction the provider reports as failed is
\* failed, its error_message contains the provider's error text (when the
\* provider gave one), and download_video never ran for it; the same holds
\* of a job whose resumed polling ended on a failed prediction.
C8_ProviderFailure ==
    /\ \A j \in JobIds :
         reported[j] = "failed"
         => /\ gen_jobs[j].status = "failed"
            /\ atlas[gen_jobs[j].result.prediction_id].has_error
                 => ErrorContains(gen_jobs[j].error_message, ProviderError)
            /\ fetches[j] = 0
    /\ \A j \in JobIds :
         (/\ poll[j].state = "done"
          /\ poll[j].seen.up
          /\ poll[j].seen.status = "failed")
         => /\ gen_jobs[j].status = "failed"
            /\ poll[j].seen.has_error
                 => ErrorContains(gen_jobs[j].error_message, ProviderError)
            /\ fetches[j] = 0

C10_CheckRaisedFailed ==
    \A j \in JobIds : reported[j] = "raised" => gen_jobs[j].status = "failed"

\* C11: one startup sends at most 10 status checks to the provider from
\* mark_stale_jobs_failed, however many stale clip jobs with prediction ids
\* the store holds.
C11_AtMostTenChecks == status_checks <= STALE_CHECK_LIMIT

\* more than 10 stale clip jobs with a prediction id were found, 10 were
\* checked and mark_stale_jobs_failed has returned
C11_Witness ==
    /\ pc = "serving"
    /\ status_checks = STALE_CHECK_LIMIT
    /\ Cardinality({ j \in stale0 : /\ IsClipWithPrediction(gen_jobs[j])
                                    /\ Truthy(gen_jobs[j].result.prediction_id) })
         > STALE_CHECK_LIMIT
\* C12: whatever raises in startup recovery (the store query, a store update,
\* a provider check, the scheduling of the resume task), lifespan reaches its
\* yield: the application gets to the serving state.
C12_ReachesServing == <>(pc = "serving")

\* a provider check and a store call raised, and the application is serving
C12_Witness ==
    /\ pc = "serving"
    /\ store_faults > 0
    /\ \E j \in JobIds : reported[j] = "raised"
\* C13: every execution of run_job ends with exactly one terminal update of
\* its job applied by the store, and none has a completed update followed by
\* a failed one (or the reverse), whichever of the handler, the upload or a
\* store write raised.
C13_OneTerminalWrite ==
    \A k \in 1..Len(tasks) :
      /\ Len(tasks[k].writes) <= 1
      /\ tasks[k].st = "done" => Len(tasks[k].writes) = 1

\* C14: a row that is completed or failed keeps its status, result and
\* error_message in every later step of a serving process.
C14_TerminalRowsKept ==
    [][\A j \in 1..Len(gen_jobs) :
         Terminal(gen_jobs[j])
         => /\ gen_jobs'[j].status = gen_jobs[j].status
            /\ gen_jobs'[j].result = gen_jobs[j].result
            /\ gen_jobs'[j].error_message = gen_jobs[j].error_message]_vars

\* C15: a terminal update_gen_job that the store applies to a row that is
\* already completed or failed leaves the row's status, result and
\* error_message as the first terminal write set them.
C15_SecondTerminalWriteNoOp ==
    [][\A k \in 1..Len(tasks) :
         (/\ Len(tasks'[k].writes) > Len(tasks[k].writes)
          /\ Terminal(gen_jobs[tasks[k].job_id]))
         => /\ gen_jobs'[tasks[k].job_id].status = gen_jobs[tasks[k].job_id].status
            /\ gen_jobs'[tasks[k].job_id].result = gen_jobs[tasks[k].job_id].result
            /\ gen_jobs'[tasks[k].job_id].error_message
                 = gen_jobs[tasks[k].job_id].error_message]_vars
\* the callers inside the rate limiter's context
Inside == { c \in 1..MaxImageCallers : image_callers[c].pc = "inside" }

\* C16: at every moment at most max_concurrent callers are inside the
\* _ImageRateLimiter context, whichever of the three image functions they
\* called and however they arrive.
C16_AtMostMaxConcurrent ==
    Cardinality(Inside) <= image_cfg.max_concurrent

\* max_concurrent callers are inside, of two different functions, and another
\* caller is waiting for the semaphore
C16_Witness ==
    /\ Cardinality(Inside) = image_cfg.max_concurrent
    /\ \E c \in 1..MaxImageCallers : image_callers[c].pc = "acquire"
    /\ \E c, d \in 1..MaxImageCallers :
         /\ image_callers[c].pc \in {"inside", "acquire"}
         /\ image_callers[d].pc \in {"inside", "acquire"}
         /\ image_callers[c].fn # image_callers[d].fn

\* C17: any two consecutive grants of the rate limiter are at least
\* 60/max(ipm, 1) seconds apart: when __aenter__ returns to a caller, that
\* long has passed since its previous return.
C17_GrantsSpaced ==
    [][\A c \in 1..MaxImageCallers :
         (image_callers[c].pc # "inside" /\ image_callers'[c].pc = "inside"
          /\ last_grant # NoGrant)
         => loop_time - last_grant >= Interval(image_cfg.ipm)]_vars

\* max_concurrent = 2 and 45 per minute (an interval of 1333 ms): three
\* callers have been granted in the shortest time the pacing allows, at
\* 60.000 s, 61.333 s and 62.666 s
C17_Witness ==
    /\ image_cfg.max_concurrent = 2
    /\ image_cfg.ipm = 45
    /\ \A c \in 1..3 : image_callers[c].pc \in {"inside", "done", "raised"}
    /\ last_grant = LoopStart + 2 * Interval(image_cfg.ipm)
    /\ loop_time = last_grant
\* C18: one invocation of _genai_generate_content (or edit_image, or
\* generate_text) calls Google's generate_content at most MAX_RETRIES + 1
\* times, timed-out attempts included.
C18_AtMostFourCalls == retry.calls <= MAX_RETRIES + 1

\* the loop made its four calls, one of which timed out, and was left
C18_Witness ==
    /\ retry.calls = MAX_RETRIES + 1
    /\ retry.pc \in {"fallback", "raised", "returned"}
    /\ \E i \in DOMAIN retry.retries : retry.retries[i].after = "timeout"

\* C19: before every retry in _genai_generate_content and edit_image the
\* task waited at least RETRY_BASE_DELAY * 2^k seconds, k being the index of
\* the failed attempt, whether that attempt raised or timed out.
C19_BackoffBeforeRetry ==
    retry.fn \in {"_genai_generate_content", "edit_image"}
    => \A i \in DOMAIN retry.retries :
         retry.retries[i].delay >= RETRY_BASE_DELAY * (2 ^ retry.retries[i].attempt)

\* C20: in _genai_generate_content and generate_text, an attempt that fails
\* with an error that is no timeout and that the function classifies as not
\* transient is followed by nothing but the raise: no further call, no
\* sleep, no fallback.
C20_NonTransientRaisedAtOnce ==
    [][/\ (/\ retry.fn \in {"_genai_generate_content", "generate_text"}
            /\ retry'.calls = retry.calls + 1
            /\ retry'.failure = "error"
            /\ ~Transient(retry.fn, retry'.last_error))
           => /\ retry'.pc = "raised"
              /\ retry'.retries = retry.retries
              /\ retry'.fallbacks = retry.fallbacks
       /\ retry.pc = "raised" => retry' = retry]_vars

\* a first attempt failed with an error that is not transient, and the
\* error was raised although attempts and a fallback were there to use
C20_Witness ==
    /\ retry.fn = "_genai_generate_content"
    /\ retry.pc = "raised"
    /\ retry.failure = "error"
    /\ ~is_transient(retry.last_error)
    /\ retry.calls = 1
    /\ retry.fallback_prompt /\ retry.openai

\* the process_single_shot tasks that raised
FailedShots == { i \in 1..Len(shots) : shots[i].pc = "failed" }

\* run_shot_regeneration has not touched the film yet
NoRegenerationYet == \A r \in 1..MaxRegens : regens[r].pc = "idle"

Ascending(numbers) ==
    \A i, j \in 1..Len(numbers) : i < j => numbers[i] <= numbers[j]

StrictlyAscending(numbers) ==
    \A i, j \in 1..Len(numbers) : i < j => numbers[i] < numbers[j]

\* C21: when run_film_generation has returned and exactly one of its N shot
\* tasks raised, every other task ran to its end, completed_shots holds
\* exactly N-1 shots, and (for N > 1) assemble_videos was called with those
\* N-1 artifacts.
C21_OneFailureOthersComplete ==
    (film_pc = "returned" /\ NoRegenerationYet /\ Cardinality(FailedShots) = 1)
    => /\ \A i \in 1..Len(shots) : i \notin FailedShots => shots[i].pc = "done"
       /\ Len(film.completed_shots) = Len(shots) - 1
       /\ Len(shots) > 1 =>
            /\ Len(assemblies) = 1
            /\ Len(assemblies[1].video_paths) = Len(shots) - 1

\* two shots launched, one raised, the film was assembled from the other
C21_Witness ==
    /\ film_pc = "returned" /\ NoRegenerationYet
    /\ Len(shots) = 2 /\ Cardinality(FailedShots) = 1
    /\ film.status = "ready"
    /\ Len(film.completed_shots) = 1
    /\ Len(assemblies) = 1 /\ Len(assemblies[1].video_paths) = 1

\* C22 as stated: the list handed to assemble_videos, by run_film_generation
\* and by run_shot_regeneration, is in strictly ascending shot number.
C22_StrictlyAscending ==
    \A k \in 1..Len(assemblies) : StrictlyAscending(assemblies[k].numbers)

\* C22 as amended: the list handed to assemble_videos is in ascending shot
\* number (no artifact comes before one of a smaller shot number), and in
\* strictly ascending shot number when completed_shots has no two entries
\* of one shot number; each artifact is listed at the place of its shot.
C22_Ascending ==
    \A k \in 1..Len(assemblies) :
        /\ Ascending(assemblies[k].numbers)
        /\ (\A i, j \in 1..Len(assemblies[k].numbers) :
               i # j => assemblies[k].numbers[i] # assemblies[k].numbers[j])
             => StrictlyAscending(assemblies[k].numbers)
        /\ \A i \in 1..Len(assemblies[k].numbers) :
             assemblies[k].video_paths[i] = ShotFile(assemblies[k].numbers[i])

\* beats submitted as 2, 1: shot 1 failed and the film was assembled from
\* shot 2; shot 1 was then regenerated, appended after shot 2, and the list
\* handed to assemble_videos is 1, 2
C22_Witness ==
    /\ beats = <<2, 1>>
    /\ Len(assemblies) = 2
    /\ assemblies[1].by = "run_film_generation" /\ assemblies[1].numbers = <<2>>
    /\ assemblies[2].by = "run_shot_regeneration" /\ assemblies[2].numbers = <<1, 2>>

\* C23: after run_film_generation has returned with some but not all shots
\* failed, the FilmJob's error_message (what _film_result returns) names the
\* number of every failed shot.
C23_FailedShotsExposed ==
    (film_pc = "returned" /\ NoRegenerationYet
       /\ FailedShots # {} /\ Cardinality(FailedShots) < Len(shots))
    => \A i \in FailedShots :
         \E e \in 1..Len(film.error_message.shots) :
            film.error_message.shots[e].number = BeatsToProcess(beats)[i]

\* C24: the step of run_film_generation that follows gather, when at least
\* one shot was launched and every one raised, sets status "failed" with an
\* error_message that lists every shot with its error, returns, and does
\* not call assemble_videos.
C24_AllFailedNoAssembly ==
    [][(film_pc = "gather" /\ film_pc' # "gather"
          /\ Len(shots) >= 1 /\ Cardinality(FailedShots) = Len(shots))
       => /\ film_pc' = "returned"
          /\ film'.status = "failed"
          /\ film'.error_message.kind = "All shots failed. "
          /\ Len(film'.error_message.shots) = Len(shots)
          /\ \A i \in 1..Len(shots) :
               film'.error_message.shots[i] =
                  [number |-> BeatsToProcess(beats)[i], err |-> shots[i].error]
          /\ assemblies' = assemblies]_vars

\* two shots launched, both raised: the film is failed and nothing was
\* assembled
C24_Witness ==
    /\ film_pc = "returned" /\ NoRegenerationYet
    /\ Len(shots) = 2 /\ Cardinality(FailedShots) = 2
    /\ film.status = "failed"
    /\ Len(film.error_message.shots) = 2
    /\ assemblies = << >>

\* C25: status = ready implies that completed_shots holds each of the
\* total_shots shots of the film (the numbers of the beats that were
\* processed).
C25_ReadyHasEveryShot ==
    film.status = "ready"
    => \A i \in 1..film.total_shots :
         \E c \in 1..Len(film.completed_shots) :
            film.completed_shots[c].number = BeatsToProcess(beats)[i]

\* C26: status = ready implies that final_video_path is set, to the output
\* of a call of assemble_videos that returned.
C26_ReadyHasFinalVideo ==
    film.status = "ready"
    => /\ film.final_video_path # NoPath
       /\ \E k \in 1..Len(assemblies) :
            /\ assemblies[k].state = "returned"
            /\ film.final_video_path = OutputPath(assemblies[k], k)

\* a film of two shots was assembled and is ready
C26_Witness ==
    /\ film.status = "ready"
    /\ film_pc = "returned"
    /\ Len(film.completed_shots) = 2
    /\ film.final_video_path = <<"assembled", 1>>

\* C27: once run_shot_regeneration has called assemble_videos for a shot of
\* an assembled film, completed_shots has exactly one entry of that shot
\* number, its artifact is the file just downloaded, and every artifact in
\* the list handed to assemble_videos was on disk at the call.
C27_RegenerationReassembles ==
    \A r \in 1..MaxRegens :
        (regens[r].pc = "assemble" /\ film.status = "ready"
           /\ \E c \in 1..Len(film.completed_shots) :
                 film.completed_shots[c].number = regens[r].number)
        => LET call == assemblies[regens[r].assembly]
               entries == { i \in 1..Len(call.numbers) :
                              call.numbers[i] = regens[r].number }
           IN /\ Cardinality(entries) = 1
              /\ \A i \in entries : call.video_paths[i] = regens[r].video_path
              /\ \A i \in 1..Len(call.video_paths) : call.present[i]

\* C28: a resume_clip_polling task that has returned has not left its job
\* in status generating (after POLL_TIMEOUT_SECONDS without a terminal answer
\* of the provider the job is failed with a timeout error).
C28_ResumeNeverLeavesGenerating ==
    \A j \in JobIds : poll[j].state = "done" => gen_jobs[j].status # "generating"

\* C29: a generate_video loop, of seedance or of veo, that has slept for
\* the maximum poll duration is no longer polling: it has returned or
\* raised (measured for both with POLL_TIMEOUT_SECONDS, the one maximum
\* poll duration the code configures).
C29_PollLoopsBounded ==
    video_loop.pc = "polling" => video_loop.elapsed < POLL_TIMEOUT_SECONDS

\* C30: no job is marked failed with, as its error, the exception of a
\* store write that followed a successful generation.
C30_StoreFaultNeverFails ==
    \A i \in JobIds :
        gen_jobs[i].status = "failed" => gen_jobs[i].error_message # <<"store error">>

\* the process_single_shot tasks that are in generate_shot_with_retry
RunningShots == { i \in DOMAIN shots : shots[i].pc = "video" }

\* C31: every video generation that is under way for a film runs inside a
\* rate-limiter context: there are never more shot tasks in their video
\* call than permits held.
C31_VideoCallsHoldPermit ==
    Cardinality(RunningShots) <= Cardinality(Inside)

\* generate_video is in its poll loop: sleeping, awaiting the GET or in the
\* heartbeat
InPollLoop ==
    video_loop.pc \in {"polling", "awaiting", "heartbeat", "touched", "touch_raised"}

\* C32: while seedance.generate_video, called with job_id, generation_id
\* and scene_number, is polling (from before its first poll on), the job's
\* row is generating and its result is the prediction reference.
C32_PolledJobCarriesPrediction ==
    (/\ video_loop.provider = "seedance"
     /\ InPollLoop
     /\ Truthy(video_loop.job_id)
     /\ video_loop.recovery_ids)
    => /\ gen_jobs[video_loop.job_id].status = "generating"
       /\ gen_jobs[video_loop.job_id].result = PredictionRef(1, 1, 1)

\* the loop of a call with the three ids has polled and beaten, and the
\* row carries the reference
C32_Witness ==
    /\ video_loop.provider = "seedance"
    /\ video_loop.pc = "polling"
    /\ Truthy(video_loop.job_id) /\ video_loop.recovery_ids
    /\ video_loop.polls >= 1
    /\ video_loop.last_heartbeat > 0
    /\ gen_jobs[video_loop.job_id].result = PredictionRef(1, 1, 1)

\* C33: in every reachable state a gen_jobs row whose error_message is not
\* null has status failed.
C33_ErrorOnlyWhenFailed ==
    \A i \in DOMAIN gen_jobs :
        gen_jobs[i].error_message # NoError => gen_jobs[i].status = "failed"

\* C34: a heartbeat changes only updated_at: over every step of an
\* iteration of the seedance poll loop, its heartbeat included, every row
\* keeps its status, result and error_message; and touch_gen_job leaves these three fields of a row
\* of any shape (generating, completed, failed) as they were.
C34_HeartbeatOnlyUpdatedAt ==
    [][/\ (video_loop.provider = "seedance" /\ InPollLoop)
          => \A i \in DOMAIN gen_jobs :
               /\ gen_jobs'[i].status = gen_jobs[i].status
               /\ gen_jobs'[i].result = gen_jobs[i].result
               /\ gen_jobs'[i].error_message = gen_jobs[i].error_message
       /\ \A r \in FreeRows(1) :
            touch_gen_job(<<r>>, 1) = <<[r EXCEPT !.updated_at = Now]>>]_vars

\* a heartbeat has refreshed the row that carries the prediction reference
C34_Witness ==
    /\ video_loop.provider = "seedance"
    /\ video_loop.last_heartbeat > 0
    /\ Truthy(video_loop.job_id)
    /\ gen_jobs[video_loop.job_id].updated_at = Now
    /\ gen_jobs[video_loop.job_id].result = PredictionRef(1, 1, 1)

\* C35: the Google image calls of one caller inside the rate limiter, its
\* retry attempts included, start at least 60/IPM seconds after one another.
C35_AttemptsPaced ==
    retry.fn \in {"_genai_generate_content", "edit_image"}
    => \A k \in 1..(Len(retry.starts) - 1) :
         retry.starts[k + 1] - retry.starts[k] >= Interval(image_cfg.ipm)

\* C36: when every Google attempt of _genai_generate_content has timed
\* out, and a fallback prompt and an OpenAI client are there, no error is
\* raised to the caller before the OpenAI fallback has been tried.
C36_TimeoutsFallBack ==
    (/\ retry.fn = "_genai_generate_content"
     /\ retry.pc = "raised"
     /\ retry.failure = "timeout"
     /\ retry.calls = MAX_RETRIES + 1
     /\ \A k \in DOMAIN retry.retries : retry.retries[k].after = "timeout"
     /\ retry.fallback_prompt /\ retry.openai)
    => retry.fallbacks >= 1

\* C37: generate_shot_with_retry goes on to another attempt only after a
\* transient error of generate_video, and makes at most max_retries + 1
\* attempts in all.
C37_OnlyTransientRetried ==
    retry.fn = "generate_shot_with_retry"
    => /\ retry.pc = "backoff" => is_transient(retry.last_error)
       /\ retry.calls <= max_retries + 1

\* C38: every gen_jobs row in status generating whose id submit_job has
\* returned to a caller has a run_job task, scheduled or running, that has
\* not finished (or the submit_job call that upserted the row is about to
\* add it).
C38_ReturnedJobHasTask ==
    \A c \in 1..MaxCallers :
        (callers[c].pc = "returned"
         /\ gen_jobs[callers[c].job_id].status = "generating")
        => \/ LiveTasks(callers[c].job_id) # {}
           \/ \E d \in 1..MaxCallers : /\ callers[d].pc = "add_task"
                                       /\ callers[d].job_id = callers[c].job_id

\* the callers that hold a concurrency slot: past sem.acquire(), not yet
\* through __aexit__
SlotHolders ==
    { c \in 1..MaxImageCallers : image_callers[c].pc \in {"lock", "pace", "inside"} }

\* C39: a slot of the _ImageRateLimiter is released exactly once when the
\* wrapped call finishes, returning or raising: the free slots and the slots
\* held always add up to max_concurrent, and once every caller has finished
\* all max_concurrent slots are free.
C39_SlotsReleasedOnce ==
    rate_limiter.created =>
      /\ rate_limiter.sem + Cardinality(SlotHolders) = image_cfg.max_concurrent
      /\ (\A c \in 1..MaxImageCallers : image_callers[c].pc \in {"done", "raised"})
         => rate_limiter.sem = image_cfg.max_concurrent

\* every caller has finished, one by returning and one by raising, and
\* they had to wait for the one slot
C39_Witness ==
    /\ image_cfg.max_concurrent = 1
    /\ \A c \in 1..MaxImageCallers : image_callers[c].pc \in {"done", "raised"}
    /\ \E c \in 1..MaxImageCallers : image_callers[c].pc = "done"
    /\ \E c \in 1..MaxImageCallers : image_callers[c].pc = "raised"
    /\ rate_limiter.sem = 1

\* C40: deduplication applies only while a job is generating: when a
\* submit_job sets the row of a triple whose previous job is completed or
\* failed back to generating, result and error_message are cleared and the
\* call goes on to add a new run_job task for the row, and that step adds
\* the task and returns the row's id to the caller.
C40_TerminalTripleRescheduled ==
    [][\A c \in 1..MaxCallers :
         LET ids == ConflictRows(gen_jobs, callers[c])
         IN /\ (/\ callers[c].pc = "upsert"
                /\ callers'[c].pc # "upsert"
                /\ ids # {}
                /\ Terminal(gen_jobs[FirstOf(ids)])
                /\ gen_jobs'[FirstOf(ids)].status = "generating")
               => /\ gen_jobs'[FirstOf(ids)].result = NullResult
                  /\ gen_jobs'[FirstOf(ids)].error_message = NoError
                  /\ callers'[c].pc = "add_task"
                  /\ callers'[c].job_id = FirstOf(ids)
            /\ (callers[c].pc = "add_task" /\ callers'[c].pc # "add_task")
               => /\ tasks' = Append(tasks, [job_id |-> callers[c].job_id,
                                             st |-> "scheduled", writes |-> << >>])
                  /\ callers'[c].pc = "returned"
                  /\ callers'[c].job_id = callers[c].job_id]_vars

====
